---- MODULE Spec2Model ----
(***************************************************************************)
(* Keno pattern statistics: the momentum pattern generator, the completion *)
(* evaluators and the two backtest harnesses of scripts/backtest-momentum  *)
(* and scripts/optimize-pattern-params.                                    *)
(*                                                                         *)
(* Conventions.  A Python list is a TLA+ sequence (1-based); Python's      *)
(* 0-based indices appear only inside PyRange/PySlice.  A round is the     *)
(* record [drawn |-> S] with S the set of numbers it drew (the lists the   *)
(* code reads hold distinct numbers).  A momentum value is the exact       *)
(* fraction <<n, d>> (d > 0) of the quotient the code computes in floating *)
(* point; None is the string "None".  The number universe 1..40, the       *)
(* 30-round lookahead and the other window constants of the scripts are    *)
(* scaled down; each scaled constant names the line it stands for.         *)
(***************************************************************************)
EXTENDS Integers, Sequences, FiniteSets, TLC

VARIABLES
    config,              \* MomentumPatternGenerator.config
    current_pattern,     \* MomentumPatternGenerator.current_pattern
    last_refresh_round,  \* MomentumPatternGenerator.last_refresh_round
    arg_history,         \* get_pattern: the history argument of the last call
    arg_round,           \* get_pattern: current_round_number of the last call
    ret_pattern,         \* get_pattern: the value the last call returned
    path,                \* get_pattern: the branch the last call returned from
    pc,                  \* "called" while the last call's arguments are in scope
    mom,                 \* calculate_momentum: last call [number, history, result]
    ev,                  \* the evaluators' arguments
    perf,                \* evaluate_pattern_performance: the value returned
    preds,               \* evaluate_predictions: the value returned
    run,                 \* run_backtest: the harness and its arguments
    current_index,       \* run_backtest: the loop variable current_idx
    tally,               \* run_backtest: the counters and lists of the loop
    step,                \* run_backtest: the last pass of the loop
    results,             \* run_backtest: the dict returned
    call                 \* a pattern discovery or filter function: its call and result

vars == <<config, current_pattern, last_refresh_round,
          arg_history, arg_round, ret_pattern, path, pc, mom, ev, perf, preds,
          run, current_index, tally, step, results, call>>

generatorVars == <<config, current_pattern, last_refresh_round,
                   arg_history, arg_round, ret_pattern, path, pc>>
evalVars == <<ev, perf, preds, call>>
harnessVars == <<run, current_index, tally, step, results>>

-----------------------------------------------------------------------------
(* Bounds of the model *)

NumMax == 3      \* the numbers are 1..NumMax (1..40 in the scripts)
DrawCount == 2   \* the numbers a round of the game draws
MaxHist == 2     \* the longest history prefix passed to the generator
MaxRound == 3    \* the largest round number passed to the generator
MaxFuture == 2   \* the most rounds from the evaluation point on

Numbers == 1..NumMax

Min(a, b) == IF a <= b THEN a ELSE b
Max(a, b) == IF a >= b THEN a ELSE b

-----------------------------------------------------------------------------
(* Python list operations *)

\* s[lo:hi] selects the 0-based indices PyStart(n, lo) .. PyStop(n, hi) - 1 of
\* a list of length n: a negative index counts from the end, and both ends are
\* clamped to the list.
PyStart(n, lo) == IF lo < 0 THEN Max(lo + n, 0) ELSE Min(lo, n)
PyStop(n, hi) == IF hi < 0 THEN Max(hi + n, 0) ELSE Min(hi, n)

\* The set of 0-based indices s[lo:hi] reads
PyRange(n, lo, hi) == PyStart(n, lo)..(PyStop(n, hi) - 1)

\* s[lo:hi]
PySlice(s, lo, hi) == SubSeq(s, PyStart(Len(s), lo) + 1, PyStop(Len(s), hi))

\* s[-n:]   (for n = 0 this is s[0:], the whole list)
LastN(s, n) == PySlice(s, 0 - n, Len(s))

\* s[:n]
FirstN(s, n) == PySlice(s, 0, n)

\* Exact fractions <<n, d>>, d > 0
RatGE(a, b) == a[1] * b[2] >= b[1] * a[2]
RatGT(a, b) == a[1] * b[2] > b[1] * a[2]
RatEQ(a, b) == a[1] * b[2] = b[1] * a[2]

\* sorted(s) for a list of integers: insertion after the last element that is
\* not greater.
RECURSIVE InsertAsc(_, _)
InsertAsc(sorted, x) ==
    IF sorted = <<>> THEN <<x>>
    ELSE IF Head(sorted) <= x THEN <<Head(sorted)>> \o InsertAsc(Tail(sorted), x)
    ELSE <<x>> \o sorted

RECURSIVE SortAscFrom(_, _)
SortAscFrom(sorted, rest) ==
    IF rest = <<>> THEN sorted
    ELSE SortAscFrom(InsertAsc(sorted, Head(rest)), Tail(rest))

SortAsc(s) == SortAscFrom(<<>>, s)

\* sorted(items, key=lambda x: x.key, reverse=True): descending by key, and
\* stable: items with equal keys keep their order.
RECURSIVE InsertDesc(_, _)
InsertDesc(sorted, x) ==
    IF sorted = <<>> THEN <<x>>
    ELSE IF RatGE(Head(sorted).key, x.key)
      THEN <<Head(sorted)>> \o InsertDesc(Tail(sorted), x)
    ELSE <<x>> \o sorted

RECURSIVE SortDescFrom(_, _)
SortDescFrom(sorted, rest) ==
    IF rest = <<>> THEN sorted
    ELSE SortDescFrom(InsertDesc(sorted, Head(rest)), Tail(rest))

SortByKeyDesc(items) == SortDescFrom(<<>>, items)

\* [item.number for item in items]
RECURSIVE NumbersOf(_)
NumbersOf(items) ==
    IF items = <<>> THEN <<>> ELSE <<Head(items).number>> \o NumbersOf(Tail(items))

\* [x for x in s if keep(x)] over the list of numbers 1..NumMax
RECURSIVE FilterSeq(_, _)
FilterSeq(s, keepSet) ==
    IF s = <<>> THEN <<>>
    ELSE (IF Head(s) \in keepSet THEN <<Head(s)>> ELSE <<>>)
         \o FilterSeq(Tail(s), keepSet)

SeqRange(s) == {s[i] : i \in 1..Len(s)}

-----------------------------------------------------------------------------
(* History store *)

\* get_drawn_numbers(round_data)
get_drawn_numbers(round_data) == round_data.drawn

RoundData == {[drawn |-> S] : S \in SUBSET Numbers}

RECURSIVE SeqsUpTo(_, _)
SeqsUpTo(S, n) ==
    IF n = 0 THEN {<<>>}
    ELSE LET shorter == SeqsUpTo(S, n - 1)
         IN  shorter \cup {Append(s, x) : s \in {t \in shorter : Len(t) = n - 1}, x \in S}

Histories == SeqsUpTo(RoundData, MaxHist)

\* The rounds of the game draw exactly DrawCount numbers.
GameRounds == {r \in RoundData : Cardinality(r.drawn) = DrawCount}

GameHistories == SeqsUpTo(GameRounds, MaxHist)

-----------------------------------------------------------------------------
(* Number Scoring Engine: MomentumPatternGenerator.calculate_momentum *)

None == "None"
ZeroDivisionError == "ZeroDivisionError"
MomentumSentinel == 999

IsNumber(v) == v # None /\ v # ZeroDivisionError

\* x / y for fractions x and y (Python's true division; a zero divisor raises)
TrueDiv(x, y) ==
    IF y[1] = 0 THEN ZeroDivisionError ELSE <<x[1] * y[2], x[2] * y[1]>>

\* sum(1 for round_data in rounds if number in get_drawn_numbers(round_data))
RECURSIVE CountAppearances(_, _)
CountAppearances(number, rounds) ==
    IF rounds = <<>> THEN 0
    ELSE (IF number \in get_drawn_numbers(Head(rounds)) THEN 1 ELSE 0)
         + CountAppearances(number, Tail(rounds))

\* calculate_momentum without the zero-baseline branch
calculate_momentum_unguarded(cfg, number, history) ==
    IF Len(history) < cfg.baseline_window THEN None
    ELSE
      LET recent_count ==
              CountAppearances(number, LastN(history, cfg.detection_window))
          baseline_count ==
              CountAppearances(number, LastN(history, cfg.baseline_window))
      IN  TrueDiv(TrueDiv(<<recent_count, 1>>, <<cfg.detection_window, 1>>),
                  TrueDiv(<<baseline_count, 1>>, <<cfg.baseline_window, 1>>))

\* calculate_momentum with the sentinel branch testing the baseline count
\* where the code tests the recent count
calculate_momentum_swapped(cfg, number, history) ==
    IF Len(history) < cfg.baseline_window THEN None
    ELSE
      LET recent_count ==
              CountAppearances(number, LastN(history, cfg.detection_window))
          baseline_count ==
              CountAppearances(number, LastN(history, cfg.baseline_window))
      IN  IF baseline_count = 0
            THEN (IF recent_count > 0 THEN <<0, 1>> ELSE <<MomentumSentinel, 1>>)
          ELSE <<recent_count * cfg.baseline_window,
                 cfg.detection_window * baseline_count>>

\* calculate_momentum with the recent window taken from the start of the
\* history (history[:detection_window])
calculate_momentum_oldest(cfg, number, history) ==
    IF Len(history) < cfg.baseline_window THEN None
    ELSE
      LET recent_count ==
              CountAppearances(number, FirstN(history, cfg.detection_window))
          baseline_count ==
              CountAppearances(number, LastN(history, cfg.baseline_window))
      IN  IF baseline_count = 0
            THEN (IF recent_count > 0 THEN <<MomentumSentinel, 1>> ELSE <<0, 1>>)
          ELSE <<recent_count * cfg.baseline_window,
                 cfg.detection_window * baseline_count>>
\* calculate_momentum with the baseline taken from the rounds before the
\* recent window
calculate_momentum_disjoint(cfg, number, history) ==
    IF Len(history) < cfg.baseline_window THEN None
    ELSE
      LET recent_count ==
              CountAppearances(number, LastN(history, cfg.detection_window))
          baseline_count ==
              CountAppearances(number,
                  LastN(FirstN(history, Max(0, Len(history) - cfg.detection_window)),
                        cfg.baseline_window))
      IN  IF baseline_count = 0
            THEN (IF recent_count > 0 THEN <<MomentumSentinel, 1>> ELSE <<0, 1>>)
          ELSE <<recent_count * cfg.baseline_window,
                 cfg.detection_window * baseline_count>>

calculate_momentum(cfg, number, history) ==
    IF Len(history) < cfg.baseline_window THEN None
    ELSE
      LET recent_rounds == LastN(history, cfg.detection_window)
          baseline_rounds == LastN(history, cfg.baseline_window)
          recent_count == CountAppearances(number, recent_rounds)
          baseline_count == CountAppearances(number, baseline_rounds)
          recent_freq == TrueDiv(<<recent_count, 1>>, <<cfg.detection_window, 1>>)
          baseline_freq == TrueDiv(<<baseline_count, 1>>, <<cfg.baseline_window, 1>>)
      IN  IF recent_freq = ZeroDivisionError \/ baseline_freq = ZeroDivisionError
            THEN ZeroDivisionError
          ELSE IF baseline_freq[1] = 0
            THEN (IF recent_count > 0 THEN <<MomentumSentinel, 1>> ELSE <<0, 1>>)
          ELSE TrueDiv(recent_freq, baseline_freq)

-----------------------------------------------------------------------------
(* Pattern Generator: MomentumPatternGenerator *)

\* list(range(1, 41)), scaled to 1..NumMax
RECURSIVE UpTo(_)
UpTo(n) == IF n = 0 THEN <<>> ELSE Append(UpTo(n - 1), n)

NumberList == UpTo(NumMax)

\* [{'number': n, 'momentum': momentum(n)} for n in numbers]
RECURSIVE WithMomentum(_, _, _)
WithMomentum(cfg, history, numbers) ==
    IF numbers = <<>> THEN <<>>
    ELSE <<[number |-> Head(numbers),
            key |-> calculate_momentum(cfg, Head(numbers), history)]>>
         \o WithMomentum(cfg, history, Tail(numbers))

\* [item for item in items if item.key is not None and item.key >= threshold]
RECURSIVE HotOnly(_, _)
HotOnly(items, threshold) ==
    IF items = <<>> THEN <<>>
    ELSE (IF IsNumber(Head(items).key) /\ RatGE(Head(items).key, threshold)
            THEN <<Head(items)>> ELSE <<>>)
         \o HotOnly(Tail(items), threshold)

identify_hot_numbers(cfg, history) ==
    SortByKeyDesc(HotOnly(WithMomentum(cfg, history, NumberList),
                          cfg.momentum_threshold))

\* [(num, frequencies[num]) for num in numbers]
RECURSIVE WithFrequency(_, _)
WithFrequency(rounds, numbers) ==
    IF numbers = <<>> THEN <<>>
    ELSE <<[number |-> Head(numbers),
            key |-> <<CountAppearances(Head(numbers), rounds), 1>>]>>
         \o WithFrequency(rounds, Tail(numbers))
\* get_most_frequent_numbers with the frequencies sorted in ascending order
get_most_frequent_numbers_least(cfg, history, count, exclude) ==
    LET baseline_rounds == LastN(history, cfg.baseline_window)
        listed == FilterSeq(NumberList, Numbers \ SeqRange(exclude))
        sorted_nums == SortByKeyDesc(WithFrequency(baseline_rounds, listed))
    IN  NumbersOf(LastN(sorted_nums, count))

get_most_frequent_numbers(cfg, history, count, exclude) ==
    LET baseline_rounds == LastN(history, cfg.baseline_window)
        listed == FilterSeq(NumberList, Numbers \ SeqRange(exclude))
        sorted_nums == SortByKeyDesc(WithFrequency(baseline_rounds, listed))
    IN  NumbersOf(FirstN(sorted_nums, count))

generate_pattern(cfg, history) ==
    LET hot_numbers == identify_hot_numbers(cfg, history)
        top_candidates == FirstN(hot_numbers, cfg.top_n_pool)
        pattern == NumbersOf(FirstN(top_candidates, cfg.pattern_size))
    IN  IF Len(pattern) < cfg.pattern_size
          THEN SortAsc(pattern \o get_most_frequent_numbers(cfg, history,
                                     cfg.pattern_size - Len(pattern), pattern))
          ELSE SortAsc(pattern)

\* The values get_random_pattern can return: random.shuffle leaves any order
\* of 1..NumMax, of which the first pattern_size are returned sorted.
RECURSIVE Shuffles(_)
Shuffles(S) ==
    IF S = {} THEN {<<>>}
    ELSE UNION {{<<x>> \o p : p \in Shuffles(S \ {x})} : x \in S}

get_random_pattern(cfg) ==
    {SortAsc(FirstN(numbers, cfg.pattern_size)) : numbers \in Shuffles(Numbers)}

\* The values get_fallback_pattern can return
get_fallback_pattern(cfg, history) ==
    IF Len(history) = 0 THEN get_random_pattern(cfg)
    ELSE {get_most_frequent_numbers(cfg, history, cfg.pattern_size, <<>>)}

\* The configurations a generator is built with.  Window sizes, the refresh
\* frequency and the pattern size are positive integers; the threshold is a
\* fraction.
Thresholds == {<<3, 2>>, <<1, 1>>}

AllConfigs ==
    [pattern_size : 1..2, detection_window : 1..(MaxHist + 1),
     baseline_window : 1..(MaxHist + 1), momentum_threshold : Thresholds,
     refresh_frequency : 2..3, top_n_pool : 1..2]

\* The generator's call sequences are explored for the threshold 3/2; for the
\* windows (detection, baseline) = (1, 2), (2, 1) and (1, MaxHist + 1), the
\* last a baseline no prefix reaches; and for a pool that covers the pattern
\* (refresh every 2 rounds) or falls one short of it (refresh every 3 rounds).
GeneratorConfigs ==
    {c \in AllConfigs :
        /\ c.momentum_threshold = <<3, 2>>
        /\ \/ c.detection_window + c.baseline_window = 3
           \/ c.detection_window = 1 /\ c.baseline_window = MaxHist + 1
        /\ c.top_n_pool = Max(1, c.pattern_size - (c.refresh_frequency - 2))}

\* generate_pattern and get_fallback_pattern tabulated on the generator's
\* bounded inputs (f @@ <<>> is f, evaluated once on its whole domain).
GeneratedTable ==
    [c \in GeneratorConfigs |->
        [h \in GameHistories |-> generate_pattern(c, h)] @@ <<>>] @@ <<>>

FallbackTable ==
    [c \in GeneratorConfigs |->
        [h \in GameHistories |-> get_fallback_pattern(c, h)] @@ <<>>] @@ <<>>

Tabulated(cfg, history) ==
    /\ Len(history) <= MaxHist
    /\ cfg \in DOMAIN GeneratedTable
    /\ history \in DOMAIN GeneratedTable[cfg]

Generated(cfg, history) ==
    IF Tabulated(cfg, history) THEN GeneratedTable[cfg][history]
    ELSE generate_pattern(cfg, history)

Fallback(cfg, history) ==
    IF Tabulated(cfg, history) THEN FallbackTable[cfg][history]
    ELSE get_fallback_pattern(cfg, history)

\* should_refresh true on every call
ShouldRefresh_always(cfg, pattern, current_round_number) == TRUE

\* should_refresh with `and` where the code has `or`
ShouldRefresh_and(cfg, pattern, current_round_number) ==
    /\ Len(pattern) = 0
    /\ current_round_number % cfg.refresh_frequency = 0

ShouldRefresh(cfg, pattern, current_round_number) ==
    \/ Len(pattern) = 0
    \/ current_round_number % cfg.refresh_frequency = 0
\* get_pattern with the fallback return recording the round as a refresh
get_pattern_stamped(cfg, pattern, refreshed, history, current_round_number) ==
    IF ShouldRefresh(cfg, pattern, current_round_number)
      THEN IF Len(history) < cfg.baseline_window
             THEN {[ret |-> p, current_pattern |-> pattern,
                    last_refresh_round |-> current_round_number,
                    path |-> IF Len(history) = 0 THEN "random" ELSE "fallback"] :
                   p \in Fallback(cfg, history)}
             ELSE LET fresh == Generated(cfg, history)
                  IN  {[ret |-> fresh, current_pattern |-> fresh,
                        last_refresh_round |-> current_round_number,
                        path |-> "generated"]}
      ELSE {[ret |-> pattern, current_pattern |-> pattern,
             last_refresh_round |-> refreshed, path |-> "cached"]}

\* get_pattern: every outcome of one call on a generator whose fields are
\* (pattern, refreshed): the value returned, the fields after the call and the
\* branch taken.
get_pattern(cfg, pattern, refreshed, history, current_round_number) ==
    IF ShouldRefresh(cfg, pattern, current_round_number)
      THEN IF Len(history) < cfg.baseline_window
             THEN {[ret |-> p, current_pattern |-> pattern,
                    last_refresh_round |-> refreshed,
                    path |-> IF Len(history) = 0 THEN "random" ELSE "fallback"] :
                   p \in Fallback(cfg, history)}
             ELSE LET fresh == Generated(cfg, history)
                  IN  {[ret |-> fresh, current_pattern |-> fresh,
                        last_refresh_round |-> current_round_number,
                        path |-> "generated"]}
      ELSE {[ret |-> pattern, current_pattern |-> pattern,
             last_refresh_round |-> refreshed, path |-> "cached"]}

-----------------------------------------------------------------------------
(* Payout table: bet_multis[difficulty][str(pattern_size)][str(hits)] *)

\* str(n) for the sizes and hit counts of the model
Str(n) == IF n = 0 THEN "0" ELSE <<"1", "2", "3", "4", "5", "6", "7", "8", "9">>[n]

\* d.get(key, default)
Get(d, key, default) == IF key \in DOMAIN d THEN d[key] ELSE default

\* bet_multis=None, the default of both evaluators and harnesses
NoBetMultis == [none |-> TRUE]

\* `if bet_multis:` taken whatever bet_multis is
Truthy_always(bet_multis) == TRUE

\* `if bet_multis:` -- None and the empty dict are false
Truthy(bet_multis) == bet_multis # NoBetMultis /\ DOMAIN bet_multis # {}

\* bet_multis.get(difficulty, {}).get(str(pattern_size), {}).get(str(hits), 0)
Multiplier(bet_multis, difficulty, pattern_size, hits) ==
    Get(Get(Get(bet_multis, difficulty, <<>>), Str(pattern_size), <<>>),
        Str(hits), 0)

-----------------------------------------------------------------------------
(* Completion Evaluator *)

\* len(pattern_set.intersection(drawn))
Hits(pattern_set, round_data) ==
    Cardinality(pattern_set \cap get_drawn_numbers(round_data))

\* The first loop of both evaluators: rounds_ahead of the first round, from
\* rounds_ahead on, whose drawn set holds the whole pattern; 0 if there is none.
RECURSIVE FirstCompletion(_, _, _)
FirstCompletion(pattern_set, future_rounds, rounds_ahead) ==
    IF rounds_ahead > Len(future_rounds) THEN 0
    ELSE IF pattern_set \subseteq get_drawn_numbers(future_rounds[rounds_ahead])
      THEN rounds_ahead
    ELSE FirstCompletion(pattern_set, future_rounds, rounds_ahead + 1)

\* FirstCompletion reporting the last complete round
RECURSIVE LastCompletion(_, _, _)
LastCompletion(pattern_set, future_rounds, rounds_ahead) ==
    LET later == IF rounds_ahead >= Len(future_rounds) THEN 0
                 ELSE LastCompletion(pattern_set, future_rounds, rounds_ahead + 1)
    IN  IF rounds_ahead > Len(future_rounds) THEN 0
        ELSE IF later > 0 THEN later
        ELSE IF pattern_set \subseteq get_drawn_numbers(future_rounds[rounds_ahead])
          THEN rounds_ahead
        ELSE 0

\* `if hits > 0:` and `if multiplier > 0:` of the second loop, and the
\* profit computed under them
PartialHit(pattern_set, pattern_size, future_rounds, rounds_ahead, bet_multis, difficulty) ==
    LET hits == Hits(pattern_set, future_rounds[rounds_ahead])
        multiplier == Multiplier(bet_multis, difficulty, pattern_size, hits)
    IN  [pays |-> hits > 0 /\ multiplier > 0,
         profit |-> multiplier - rounds_ahead]

\* evaluate_pattern_performance, second loop: the whole window is scanned
RECURSIVE BestPartialScan(_, _, _, _, _, _, _)
BestPartialScan(pattern_set, pattern_size, future_rounds, rounds_ahead, best_profit, bet_multis, difficulty) ==
    IF rounds_ahead > Len(future_rounds) THEN best_profit
    ELSE LET hit == PartialHit(pattern_set, pattern_size, future_rounds,
                               rounds_ahead, bet_multis, difficulty)
         IN  BestPartialScan(pattern_set, pattern_size, future_rounds,
                             rounds_ahead + 1,
                             IF hit.pays THEN Max(best_profit, hit.profit)
                             ELSE best_profit,
                             bet_multis, difficulty)
\* BestPartialBreak leaving out the hit it breaks on
RECURSIVE BestPartialBreak_dropped(_, _, _, _, _, _, _)
BestPartialBreak_dropped(pattern_set, pattern_size, future_rounds, rounds_ahead, best_profit, bet_multis, difficulty) ==
    IF rounds_ahead > Len(future_rounds) THEN best_profit
    ELSE LET hit == PartialHit(pattern_set, pattern_size, future_rounds,
                               rounds_ahead, bet_multis, difficulty)
         IN  IF ~hit.pays
               THEN BestPartialBreak_dropped(pattern_set, pattern_size, future_rounds,
                                             rounds_ahead + 1, best_profit,
                                             bet_multis, difficulty)
             ELSE IF hit.profit >= 0 THEN best_profit
             ELSE BestPartialBreak_dropped(pattern_set, pattern_size, future_rounds,
                                           rounds_ahead + 1,
                                           Max(best_profit, hit.profit),
                                           bet_multis, difficulty)

\* evaluate_predictions, second loop: the scan breaks at the first profit >= 0
RECURSIVE BestPartialBreak(_, _, _, _, _, _, _)
BestPartialBreak(pattern_set, pattern_size, future_rounds, rounds_ahead, best_profit, bet_multis, difficulty) ==
    IF rounds_ahead > Len(future_rounds) THEN best_profit
    ELSE LET hit == PartialHit(pattern_set, pattern_size, future_rounds,
                               rounds_ahead, bet_multis, difficulty)
         IN  IF ~hit.pays
               THEN BestPartialBreak(pattern_set, pattern_size, future_rounds,
                                     rounds_ahead + 1, best_profit,
                                     bet_multis, difficulty)
             ELSE IF hit.profit >= 0 THEN Max(best_profit, hit.profit)
             ELSE BestPartialBreak(pattern_set, pattern_size, future_rounds,
                                   rounds_ahead + 1,
                                   Max(best_profit, hit.profit),
                                   bet_multis, difficulty)

\* evaluate_pattern_performance reporting the last complete round
evaluate_pattern_performance_last(history, pattern, lookahead_rounds, bet_multis, difficulty) ==
    IF lookahead_rounds > Len(history)
      THEN [completed |-> FALSE, rounds_to_hit |-> 0, profit |-> 0]
    ELSE
      LET future_rounds == FirstN(history, lookahead_rounds)
          hit == LastCompletion(SeqRange(pattern), future_rounds, 1)
      IN  IF hit > 0
            THEN [completed |-> TRUE, rounds_to_hit |-> hit,
                  profit |-> IF Truthy(bet_multis)
                               THEN Multiplier(bet_multis, difficulty,
                                               Len(pattern), Len(pattern)) - hit
                               ELSE 0]
          ELSE [completed |-> FALSE, rounds_to_hit |-> 0, profit |-> 0]

\* evaluate_pattern_performance(history, pattern, lookahead_rounds,
\*                              bet_multis, difficulty)
evaluate_pattern_performance(history, pattern, lookahead_rounds, bet_multis, difficulty) ==
    IF lookahead_rounds > Len(history)
      THEN [completed |-> FALSE, rounds_to_hit |-> 0, profit |-> 0]
    ELSE
      LET future_rounds == FirstN(history, lookahead_rounds)
          pattern_set == SeqRange(pattern)
          hit == FirstCompletion(pattern_set, future_rounds, 1)
      IN  IF hit > 0
            THEN [completed |-> TRUE, rounds_to_hit |-> hit,
                  profit |-> IF Truthy(bet_multis)
                               THEN Multiplier(bet_multis, difficulty,
                                               Len(pattern), Len(pattern)) - hit
                               ELSE 0]
          ELSE IF Truthy(bet_multis)
            THEN [completed |-> FALSE, rounds_to_hit |-> 0,
                  profit |-> BestPartialScan(pattern_set, Len(pattern),
                                             future_rounds, 1,
                                             0 - lookahead_rounds,
                                             bet_multis, difficulty)]
          ELSE [completed |-> FALSE, rounds_to_hit |-> 0, profit |-> 0]

RECURSIVE Sum(_)
Sum(s) == IF s = <<>> THEN 0 ELSE Head(s) + Sum(Tail(s))

\* sum(xs) / len(xs) if xs else 0
Mean(xs) == IF xs = <<>> THEN <<0, 1>> ELSE <<Sum(xs), Len(xs)>>

\* One pass of evaluate_predictions' loop over the patterns: the counters and
\* lists after pattern_obj is handled.
EvaluateOne(acc, pattern_obj, future_rounds, lookahead_rounds, pattern_size, bet_multis, difficulty) ==
    LET pattern == SeqRange(pattern_obj.numbers)
        hit == FirstCompletion(pattern, future_rounds, 1)
        profit == Multiplier(bet_multis, difficulty, pattern_size, pattern_size) - hit
        best_profit == BestPartialBreak(pattern, pattern_size, future_rounds, 1,
                                        0 - lookahead_rounds, bet_multis, difficulty)
    IN  IF hit > 0
          THEN [successes |-> acc.successes + 1,
                rounds_to_hit |-> Append(acc.rounds_to_hit, hit),
                profits |-> IF Truthy(bet_multis)
                              THEN Append(acc.profits, profit) ELSE acc.profits,
                maintaining |-> IF Truthy(bet_multis) /\ profit >= 0
                                  THEN acc.maintaining + 1 ELSE acc.maintaining]
        ELSE IF Truthy(bet_multis)
          THEN [successes |-> acc.successes,
                rounds_to_hit |-> acc.rounds_to_hit,
                profits |-> Append(acc.profits, best_profit),
                maintaining |-> IF best_profit >= 0
                                  THEN acc.maintaining + 1 ELSE acc.maintaining]
        ELSE acc

RECURSIVE EvaluateAll(_, _, _, _, _, _, _)
EvaluateAll(acc, patterns, future_rounds, lookahead_rounds, pattern_size, bet_multis, difficulty) ==
    IF patterns = <<>> THEN acc
    ELSE EvaluateAll(EvaluateOne(acc, Head(patterns), future_rounds,
                                 lookahead_rounds, pattern_size,
                                 bet_multis, difficulty),
                     Tail(patterns), future_rounds, lookahead_rounds,
                     pattern_size, bet_multis, difficulty)
\* evaluate_predictions without its `Not enough future data` return
evaluate_predictions_unguarded(history, current_idx, patterns, lookahead_rounds, pattern_size, bet_multis, difficulty) ==
    LET future_rounds == PySlice(history, current_idx,
                                 current_idx + lookahead_rounds)
        acc == EvaluateAll([successes |-> 0, rounds_to_hit |-> <<>>,
                            profits |-> <<>>, maintaining |-> 0],
                           patterns, future_rounds, lookahead_rounds,
                           pattern_size, bet_multis, difficulty)
    IN  [predictions |-> Len(patterns), successes |-> acc.successes,
         avg_rounds |-> Mean(acc.rounds_to_hit),
         maintaining |-> acc.maintaining,
         avg_profit |-> Mean(acc.profits),
         rounds_to_hit |-> acc.rounds_to_hit, profits |-> acc.profits]

\* evaluate_predictions(history, current_idx, patterns, lookahead_rounds,
\*                      pattern_size, bet_multis, difficulty): the tuple
\* returned, with the lists rounds_to_hit and profits as they are at the return.
evaluate_predictions(history, current_idx, patterns, lookahead_rounds, pattern_size, bet_multis, difficulty) ==
    IF current_idx + lookahead_rounds > Len(history)
      THEN [predictions |-> 0, successes |-> 0, avg_rounds |-> <<0, 1>>,
            maintaining |-> 0, avg_profit |-> <<0, 1>>,
            rounds_to_hit |-> <<>>, profits |-> <<>>]
    ELSE
      LET future_rounds == PySlice(history, current_idx,
                                   current_idx + lookahead_rounds)
          acc == EvaluateAll([successes |-> 0, rounds_to_hit |-> <<>>,
                              profits |-> <<>>, maintaining |-> 0],
                             patterns, future_rounds, lookahead_rounds,
                             pattern_size, bet_multis, difficulty)
      IN  [predictions |-> Len(patterns), successes |-> acc.successes,
           avg_rounds |-> Mean(acc.rounds_to_hit),
           maintaining |-> acc.maintaining,
           avg_profit |-> Mean(acc.profits),
           rounds_to_hit |-> acc.rounds_to_hit, profits |-> acc.profits]

NoCall == [number |-> 0, history |-> <<>>, result |-> None]

GeneratorFresh ==
    /\ current_pattern = <<>>
    /\ last_refresh_round = 0
    /\ arg_history = <<>>
    /\ arg_round = 0
    /\ ret_pattern = <<>>
    /\ path = "init"
    /\ pc = "idle"

\* no call made yet
Pending == [pending |-> TRUE]

EvalIdle == ev = Pending /\ perf = Pending /\ preds = Pending /\ call = Pending

HarnessIdle ==
    /\ run = Pending
    /\ current_index = 0
    /\ tally = Pending
    /\ step = Pending
    /\ results = Pending

Init ==
    /\ config \in GeneratorConfigs
    /\ GeneratorFresh
    /\ mom = NoCall
    /\ EvalIdle
    /\ HarnessIdle

\* pattern = generator.get_pattern(history, current_round_number)
GetPattern ==
    /\ pc = "idle"
    /\ \E history \in GameHistories, current_round_number \in 0..MaxRound :
         \E out \in get_pattern(config, current_pattern, last_refresh_round,
                                history, current_round_number) :
           /\ current_pattern' = out.current_pattern
           /\ last_refresh_round' = out.last_refresh_round
           /\ arg_history' = history
           /\ arg_round' = current_round_number
           /\ ret_pattern' = out.ret
           /\ path' = out.path
    /\ pc' = "called"
    /\ UNCHANGED <<config, mom>>
    /\ UNCHANGED evalVars
    /\ UNCHANGED harnessVars

\* The caller goes on with the returned pattern; the history prefix it passed
\* goes out of scope.
Return ==
    /\ pc = "called"
    /\ pc' = "idle"
    /\ arg_history' = <<>>
    /\ UNCHANGED <<config, current_pattern, last_refresh_round, arg_round,
                   ret_pattern, path, mom>>
    /\ UNCHANGED evalVars
    /\ UNCHANGED harnessVars

Next == GetPattern \/ Return

Spec == Init /\ [][Next]_vars

\* A step that is one get_pattern call
IsCall == pc = "idle" /\ pc' = "called"

\* The call follows an earlier one, at the next round, which is no multiple of
\* refresh_frequency
NextRoundNoRefresh ==
    /\ IsCall
    /\ path # "init"
    /\ arg_round' = arg_round + 1
    /\ arg_round' % config.refresh_frequency # 0

\* C2 as stated: get_pattern called at consecutive rounds, none after the
\* first a multiple of refresh_frequency, returns the same pattern each time,
\* for any history prefixes.
C2_AsStated ==
    [][NextRoundNoRefresh => ret_pattern' = ret_pattern]_vars

\* C2 (amended): get_pattern called at consecutive rounds, none after the
\* first a multiple of refresh_frequency, returns the same pattern each time,
\* provided the first of the calls did not return from the short-history
\* fallback (it generated a pattern or was served from the cache); the later
\* calls may pass any history prefix.
C2_Sticky ==
    [][(NextRoundNoRefresh /\ path \in {"generated", "cached"})
         => ret_pattern' = ret_pattern]_vars

C2_Witness ==
    /\ pc = "called" /\ path = "cached"
    /\ arg_round = last_refresh_round + 1
    /\ Len(arg_history) >= config.baseline_window
    /\ Generated(config, arg_history) # ret_pattern

IsSortedAsc(s) == \A i \in 1..(Len(s) - 1) : s[i] < s[i + 1]

\* C3: every pattern get_pattern returns is sorted ascending and holds exactly
\* pattern_size distinct numbers of 1..NumMax.
C3_PatternShape ==
    pc = "called" =>
      /\ Len(ret_pattern) = config.pattern_size
      /\ SeqRange(ret_pattern) \subseteq Numbers
      /\ Cardinality(SeqRange(ret_pattern)) = config.pattern_size
      /\ IsSortedAsc(ret_pattern)

\* The patterns a refresh can compute from a history prefix
RecomputedFrom(history) ==
    IF Len(history) >= config.baseline_window
      THEN {Generated(config, history)}
      ELSE Fallback(config, history)

\* C4: a call with no cached pattern, or at a round that is a multiple of
\* refresh_frequency, returns a pattern computed from the history prefix it
\* was given; every other call returns the cached pattern and leaves the
\* generator as it was, whatever prefix it was given.
C4_RefreshOrCached ==
    [][IsCall =>
         IF current_pattern = <<>> \/ arg_round' % config.refresh_frequency = 0
           THEN ret_pattern' \in RecomputedFrom(arg_history')
           ELSE /\ ret_pattern' = current_pattern
                /\ current_pattern' = current_pattern
                /\ last_refresh_round' = last_refresh_round]_vars

C4_Witness ==
    /\ pc = "called" /\ path = "cached"
    /\ Len(arg_history) < config.baseline_window
    /\ arg_history # <<>>
    /\ ret_pattern \notin RecomputedFrom(arg_history)

-----------------------------------------------------------------------------
(* The Number Scoring Engine on its own: calculate_momentum applied to every *)
(* number and every bounded history, for every pair of windows.             *)

MomentumConfigs ==
    {c \in AllConfigs :
        /\ c.momentum_threshold = <<3, 2>>
        /\ c.baseline_window <= MaxHist
        /\ c.pattern_size = 1 /\ c.top_n_pool = 1 /\ c.refresh_frequency = 2}

InitMomentum ==
    /\ config \in MomentumConfigs
    /\ GeneratorFresh
    /\ mom = NoCall
    /\ EvalIdle
    /\ HarnessIdle

\* momentum = generator.calculate_momentum(number, history)
CalculateMomentum ==
    /\ mom = NoCall
    /\ \E number \in Numbers, history \in Histories :
         mom' = [number |-> number, history |-> history,
                 result |-> calculate_momentum(config, number, history)]
    /\ UNCHANGED generatorVars
    /\ UNCHANGED evalVars
    /\ UNCHANGED harnessVars

NextMomentum == CalculateMomentum

SpecMomentum == InitMomentum /\ [][NextMomentum]_vars

\* The rounds among the last n of a history that drew the number
RoundsWith(number, history, n) ==
    {i \in 1..Len(history) :
        i > Len(history) - n /\ number \in history[i].drawn}

\* The rounds a window of the last n rounds holds
WindowLen(history, n) == Min(n, Len(history))

MomCalled == mom.number \in Numbers
MomRecent == Cardinality(RoundsWith(mom.number, mom.history, config.detection_window))
MomBaseline == Cardinality(RoundsWith(mom.number, mom.history, config.baseline_window))
MomEnough == Len(mom.history) >= config.baseline_window

\* C5: calculate_momentum returns None whenever the history prefix is shorter
\* than baseline_window, and otherwise a finite number: never None and never a
\* division by zero.
C5_NoneIffShort ==
    MomCalled =>
      /\ ~MomEnough => mom.result = None
      /\ MomEnough =>
           /\ IsNumber(mom.result)
           /\ mom.result[2] > 0
           /\ mom.result[1] >= 0

C5_Witness ==
    /\ MomCalled /\ MomEnough
    /\ MomBaseline = 0
    /\ IsNumber(mom.result)

\* C6: with enough history, a number absent from the last baseline_window
\* rounds gets the sentinel 999 if it was drawn in the last detection_window
\* rounds and 0 otherwise; nothing is divided by zero.
C6_ZeroBaseline ==
    (MomCalled /\ MomEnough /\ MomBaseline = 0) =>
      mom.result = IF MomRecent > 0 THEN <<MomentumSentinel, 1>> ELSE <<0, 1>>

C6_Witness ==
    /\ MomCalled /\ MomEnough
    /\ MomBaseline = 0 /\ MomRecent > 0
    /\ mom.result = <<MomentumSentinel, 1>>

MomRatio ==
    /\ IsNumber(mom.result)
    /\ RatEQ(mom.result, <<MomRecent * config.baseline_window,
                           config.detection_window * MomBaseline>>)

\* The number was drawn in every round of both windows
MomInEveryRound ==
    /\ MomRecent = WindowLen(mom.history, config.detection_window)
    /\ MomBaseline = WindowLen(mom.history, config.baseline_window)

\* C7 as stated: with enough history and a positive baseline count the
\* momentum is (recent_count / detection_window) / (baseline_count /
\* baseline_window), and a number drawn in every round of both windows has
\* momentum exactly 1.
C7_AsStated ==
    (MomCalled /\ MomEnough /\ MomBaseline > 0) =>
      /\ MomRatio
      /\ MomInEveryRound => RatEQ(mom.result, <<1, 1>>)

\* C7 (amended): with enough history and a positive baseline count the
\* momentum is (recent_count / detection_window) / (baseline_count /
\* baseline_window); a number drawn in every round of both windows has
\* momentum exactly 1 when the history holds at least detection_window rounds.
C7_Momentum ==
    (MomCalled /\ MomEnough /\ MomBaseline > 0) =>
      /\ MomRatio
      /\ (MomInEveryRound /\ Len(mom.history) >= config.detection_window)
           => RatEQ(mom.result, <<1, 1>>)

C7_Witness ==
    /\ MomCalled /\ MomEnough /\ MomBaseline > 0
    /\ MomInEveryRound
    /\ Len(mom.history) >= config.detection_window
    /\ config.detection_window # config.baseline_window
    /\ RatEQ(mom.result, <<1, 1>>)

-----------------------------------------------------------------------------
(* The evaluators on their own: one evaluation point, both evaluators *)

\* bet_multis as loaded from the payout file: multipliers by difficulty, by
\* str(pattern size), by str(hits)
Payouts(m1, m2, full) ==
    ("1" :> ("1" :> full)) @@
    ("2" :> ("1" :> m1 @@ "2" :> full)) @@
    ("3" :> ("1" :> m1 @@ "2" :> m2 @@ "3" :> full))

PayoutTables ==
    { [high |-> Payouts(1, 4, 9)],
      [high |-> Payouts(2, 3, 1)],
      [high |-> ("2" :> ("2" :> 5)) @@ ("3" :> ("3" :> 5))],
      [classic |-> Payouts(1, 4, 9)] }

BetMultis == PayoutTables \cup {NoBetMultis, <<>>}

PatternObj(numbers) == [numbers |-> numbers, count |-> 1]

EvalPatternLists ==
    { <<PatternObj(<<1, 2, 3>>)>>,
      <<PatternObj(<<1, 2>>)>>,
      <<PatternObj(<<1, 2>>), PatternObj(<<2, 3>>)>>,
      <<PatternObj(<<3, 1>>), PatternObj(<<1, 2>>)>> }

\* The evaluation point splits the history: a round drawing every number
\* before current_idx, arbitrary rounds from current_idx on.
EvalHistories(current_idx) ==
    {(IF current_idx = 0 THEN <<>> ELSE <<[drawn |-> Numbers]>>) \o future :
        future \in SeqsUpTo(RoundData, MaxFuture)}

EvalInputs ==
    UNION {[history : EvalHistories(current_idx),
            current_idx : {current_idx},
            lookahead_rounds : (MaxFuture - 1)..MaxFuture,
            patterns : EvalPatternLists,
            bet_multis : BetMultis,
            difficulty : {"high"}] : current_idx \in 0..1}

InitEval ==
    /\ config \in {c \in MomentumConfigs : c.detection_window = 1 /\ c.baseline_window = 1}
    /\ GeneratorFresh
    /\ mom = NoCall
    /\ ev \in EvalInputs
    /\ perf = Pending
    /\ preds = Pending
    /\ call = Pending
    /\ HarnessIdle

\* run_backtest (backtest-momentum.py) hands the evaluator the rounds from
\* current_idx on and the generator's pattern
EvaluatePatternPerformance ==
    /\ perf = Pending
    /\ perf' = evaluate_pattern_performance(
                   PySlice(ev.history, ev.current_idx, Len(ev.history)),
                   ev.patterns[1].numbers, ev.lookahead_rounds,
                   ev.bet_multis, ev.difficulty)
    /\ UNCHANGED <<ev, preds, mom, call>>
    /\ UNCHANGED generatorVars
    /\ UNCHANGED harnessVars

\* run_backtest (optimize-pattern-params.py) hands the evaluator the whole
\* history, current_idx and the qualifying patterns
EvaluatePredictions ==
    /\ preds = Pending
    /\ preds' = evaluate_predictions(ev.history, ev.current_idx, ev.patterns,
                                     ev.lookahead_rounds,
                                     Len(ev.patterns[1].numbers),
                                     ev.bet_multis, ev.difficulty)
    /\ UNCHANGED <<ev, perf, mom, call>>
    /\ UNCHANGED generatorVars
    /\ UNCHANGED harnessVars

NextEval == EvaluatePatternPerformance \/ EvaluatePredictions

SpecEval == InitEval /\ [][NextEval]_vars

-----------------------------------------------------------------------------
(* Claims about the evaluators *)

\* the look-ahead window exists: lookahead_rounds rounds from current_idx on
HasWindow == ev.current_idx + ev.lookahead_rounds <= Len(ev.history)

\* round i (1-based) of the look-ahead window
WindowRound(i) == ev.history[ev.current_idx + i]

CompletesAt(numbers, i) == SeqRange(numbers) \subseteq WindowRound(i).drawn

Completes(numbers) == \E i \in 1..ev.lookahead_rounds : CompletesAt(numbers, i)

FirstComplete(numbers) ==
    CHOOSE i \in 1..ev.lookahead_rounds :
        CompletesAt(numbers, i) /\ \A j \in 1..(i - 1) : ~CompletesAt(numbers, j)

Payout(size, hits) == Multiplier(ev.bet_multis, ev.difficulty, size, hits)

\* rounds_to_hit of the completing patterns, in the order of the patterns
RECURSIVE FirstCompletes(_)
FirstCompletes(patterns) ==
    IF patterns = <<>> THEN <<>>
    ELSE (IF Completes(Head(patterns).numbers)
            THEN <<FirstComplete(Head(patterns).numbers)>> ELSE <<>>)
         \o FirstCompletes(Tail(patterns))

\* C8: when a pattern of size K completes within the look-ahead window,
\* rounds_to_hit is the 1-based index of the first round of the window whose
\* drawn set holds the whole pattern and, with a payout table, the profit is
\* payout[difficulty][K][K] - rounds_to_hit, whatever the earlier rounds hit.
C8_Completion ==
    /\ (perf # Pending /\ HasWindow /\ Completes(ev.patterns[1].numbers)) =>
          LET numbers == ev.patterns[1].numbers
              K == Len(numbers)
          IN  /\ perf.completed
              /\ perf.rounds_to_hit = FirstComplete(numbers)
              /\ Truthy(ev.bet_multis) =>
                    perf.profit = Payout(K, K) - FirstComplete(numbers)
    /\ (preds # Pending /\ HasWindow) =>
          /\ preds.rounds_to_hit = FirstCompletes(ev.patterns)
          /\ preds.successes = Len(FirstCompletes(ev.patterns))
          /\ Truthy(ev.bet_multis) =>
                \A i \in 1..Len(ev.patterns) :
                    LET numbers == ev.patterns[i].numbers
                        K == Len(numbers)
                    IN  Completes(numbers) =>
                          preds.profits[i] = Payout(K, K) - FirstComplete(numbers)

\* A pattern completes in round 2 of the window after a paying partial hit in
\* round 1, and both evaluators have reported.
C8_Witness ==
    /\ perf # Pending /\ preds # Pending /\ HasWindow
    /\ Truthy(ev.bet_multis)
    /\ LET numbers == ev.patterns[1].numbers
       IN  /\ Completes(numbers) /\ FirstComplete(numbers) = 2
           /\ CompletesAt(numbers, 2) /\ Len(numbers) = 3
           /\ Hits(SeqRange(numbers), WindowRound(1)) = 2
           /\ Payout(3, 2) - 1 > Payout(3, 3) - 2
           /\ perf.rounds_to_hit = 2
           /\ preds.rounds_to_hit = <<2>>

\* profits of the paying partial hits of the window
PartialProfits(numbers) ==
    {Payout(Len(numbers), Hits(SeqRange(numbers), WindowRound(i))) - i :
        i \in {j \in 1..ev.lookahead_rounds :
                 /\ Hits(SeqRange(numbers), WindowRound(j)) > 0
                 /\ Payout(Len(numbers), Hits(SeqRange(numbers), WindowRound(j))) > 0}}

MaxOf(S) == CHOOSE x \in S : \A y \in S : y <= x

BestPartial(numbers) ==
    IF PartialProfits(numbers) = {} THEN 0 - ev.lookahead_rounds
    ELSE MaxOf(PartialProfits(numbers))

\* C9 part, evaluate_pattern_performance: without a completion and with a
\* payout table the profit is the maximum over all rounds of the window with a
\* paying hit of payout - rounds elapsed, and -window length exactly when
\* there is no such round.
C9_PerformanceScansAll ==
    (perf # Pending /\ HasWindow /\ Truthy(ev.bet_multis)
       /\ ~Completes(ev.patterns[1].numbers)) =>
          /\ ~perf.completed
          /\ perf.profit = BestPartial(ev.patterns[1].numbers)
          /\ perf.profit = 0 - ev.lookahead_rounds
               <=> PartialProfits(ev.patterns[1].numbers) = {}

\* C9: when no completion occurs and a payout table is supplied, the profit
\* recorded for the pattern, in evaluate_pattern_performance and in
\* evaluate_predictions, is the maximum over all rounds of the window with
\* hits > 0 and payout > 0 of payout - rounds elapsed, and is -window length
\* exactly when there is no such round.
C9_AsStated ==
    /\ C9_PerformanceScansAll
    /\ (preds # Pending /\ HasWindow /\ Truthy(ev.bet_multis)) =>
          \A i \in 1..Len(ev.patterns) :
              LET numbers == ev.patterns[i].numbers
              IN  ~Completes(numbers) =>
                    /\ preds.profits[i] = BestPartial(numbers)
                    /\ preds.profits[i] = 0 - ev.lookahead_rounds
                         <=> PartialProfits(numbers) = {}

\* No completion, a break-even partial hit in round 1 and a better one later.
C9_Witness ==
    /\ perf # Pending /\ preds # Pending /\ HasWindow /\ Truthy(ev.bet_multis)
    /\ ~Completes(ev.patterns[1].numbers)
    /\ Cardinality(PartialProfits(ev.patterns[1].numbers)) = 2
    /\ perf.profit > 0

-----------------------------------------------------------------------------
(* Backtest harnesses: the two run_backtest functions                      *)
(* The window constants of the scripts are scaled down to the histories of *)
(* the model; each keeps its role and its place in the code.               *)

BtLen == 8             \* rounds in a backtested history

Lookahead == 2         \* lookahead = 30, in both scripts
MomentumBuffer == 1    \* start_idx = baseline_window + 100
DiscoveryWindow == 2   \* discovery_window = 500
ParamsBuffer == 1      \* start_idx = max(discovery_window, sample_size) + 200
StepSize == 2          \* step_size = 50
TrackingWindow == 3    \* history[max(0, current_idx - 1000):current_idx]
TopN == 2              \* find_common_patterns(discovery_history, pattern_size, 100, ...)
MinHitRate == 40       \* if hit_rate < 10

\* a slice history[lo:hi]: its rounds and the indices (0-based) it reads
SliceOf(history, bounds) == PySlice(history, bounds.lo, bounds.hi)
SliceIdx(history, bounds) == PyRange(Len(history), bounds.lo, bounds.hi)

\* exact fractions <<numerator, denominator>>, denominator > 0
RatAdd(a, b) == <<a[1] * b[2] + b[1] * a[2], a[2] * b[2]>>

RECURSIVE RatSum(_)
RatSum(xs) == IF xs = <<>> THEN <<0, 1>> ELSE RatAdd(Head(xs), RatSum(Tail(xs)))

\* sum(xs) / len(xs) if xs else 0, for a list of fractions
RatMean(xs) ==
    IF xs = <<>> THEN <<0, 1>> ELSE <<RatSum(xs)[1], RatSum(xs)[2] * Len(xs)>>
\* Rate answering 100 when there is nothing to divide by
Rate_default(part, whole) == IF whole > 0 THEN <<part * 100, whole>> ELSE <<100, 1>>

\* (part / whole * 100) if whole > 0 else 0
Rate(part, whole) == IF whole > 0 THEN <<part * 100, whole>> ELSE <<0, 1>>

\* The datasets of the harnesses: BtLen rounds, each drawing the DrawCount
\* lowest or the DrawCount highest numbers.
BacktestRounds ==
    {[drawn |-> 1..DrawCount], [drawn |-> (NumMax - DrawCount + 1)..NumMax]}

RECURSIVE SeqsOfLen(_, _)
SeqsOfLen(S, n) ==
    IF n = 0 THEN {<<>>}
    ELSE {Append(h, r) : h \in SeqsOfLen(S, n - 1), r \in S}

BacktestHistories == SeqsOfLen(BacktestRounds, BtLen)

-----------------------------------------------------------------------------
(* run_backtest of backtest-momentum.py *)

\* history_slice = history[:current_idx], off by one
history_slice_inclusive(current_idx) == [lo |-> 0, hi |-> current_idx + 1]
\* history_slice holding only the round before current_idx
history_slice_recent(current_idx) == [lo |-> current_idx - 1, hi |-> current_idx]

\* history_slice = history[:current_idx]
history_slice(current_idx) == [lo |-> 0, hi |-> current_idx]

\* future_history = history[current_idx:]
future_history(history, current_idx) == [lo |-> current_idx, hi |-> Len(history)]

\* the indices of history read through future_history[:lookahead_rounds]
FutureRoundsIdx(history, current_idx, lookahead_rounds) ==
    {current_idx + i :
        i \in PyRange(Len(SliceOf(history, future_history(history, current_idx))),
                      0, lookahead_rounds)}

BacktestConfigs ==
    {c \in AllConfigs :
        /\ c.momentum_threshold = <<3, 2>>
        /\ c.detection_window <= 2
        /\ c.baseline_window <= 2
        /\ c.top_n_pool = c.pattern_size}

\* the predictions evaluated in the passes made so far, [at, numbers] each,
\* and the profit the evaluator gave each of them when there is a payout table
Evaluated == IF step = Pending THEN <<>> ELSE step.predicted
Realized == IF step = Pending THEN <<>> ELSE step.realized

MomentumTally ==
    [total_predictions |-> 0, total_completions |-> 0, total_maintaining |-> 0,
     rounds_to_hit |-> <<>>, profits |-> <<>>,
     pattern_changes |-> 0, last_pattern |-> <<>>]

InitBacktestMomentum ==
    /\ config \in BacktestConfigs
    /\ run \in [harness : {"momentum"}, history : BacktestHistories,
                bet_multis : {NoBetMultis, [high |-> Payouts(1, 4, 1)]},
                difficulty : {"high"}]
    /\ current_index = config.baseline_window + MomentumBuffer
    /\ tally = MomentumTally
    /\ step = Pending
    /\ results = Pending
    /\ GeneratorFresh
    /\ mom = NoCall
    /\ EvalIdle

\* one pass of the loop
\*   for current_idx in range(start_idx, len(history) - lookahead, refresh_frequency)
BacktestMomentumStep ==
    /\ run.harness = "momentum"
    /\ results = Pending
    /\ current_index < Len(run.history) - Lookahead
    /\ \E got \in get_pattern(config, current_pattern, last_refresh_round,
                              SliceOf(run.history, history_slice(current_index)),
                              current_index) :
       \E outcome \in
             {evaluate_pattern_performance(
                  SliceOf(run.history, future_history(run.history, current_index)),
                  got.ret, Lookahead, run.bet_multis, run.difficulty)} :
         LET pattern == got.ret
             changed == pattern # tally.last_pattern
         IN  /\ current_pattern' = got.current_pattern
             /\ last_refresh_round' = got.last_refresh_round
             /\ tally' =
                  [total_predictions |-> tally.total_predictions + 1,
                   total_completions |-> tally.total_completions
                                           + (IF outcome.completed THEN 1 ELSE 0),
                   rounds_to_hit |-> IF outcome.completed
                                       THEN Append(tally.rounds_to_hit, outcome.rounds_to_hit)
                                       ELSE tally.rounds_to_hit,
                   profits |-> IF Truthy(run.bet_multis)
                                 THEN Append(tally.profits, outcome.profit)
                                 ELSE tally.profits,
                   total_maintaining |-> tally.total_maintaining
                                           + (IF Truthy(run.bet_multis) /\ outcome.profit >= 0
                                                THEN 1 ELSE 0),
                   pattern_changes |-> tally.pattern_changes + (IF changed THEN 1 ELSE 0),
                   last_pattern |-> IF changed THEN pattern ELSE tally.last_pattern]
             /\ step' = [at |-> current_index,
                         past |-> SliceIdx(run.history, history_slice(current_index)),
                         future |-> FutureRoundsIdx(run.history, current_index, Lookahead),
                         patterns |-> <<pattern>>,
                         path |-> got.path,
                         outcome |-> outcome,
                         predicted |-> Append(Evaluated, [at |-> current_index,
                                                          numbers |-> pattern]),
                         realized |-> IF Truthy(run.bet_multis)
                                        THEN Append(Realized, outcome.profit)
                                        ELSE Realized]
    /\ current_index' = current_index + config.refresh_frequency
    /\ UNCHANGED <<config, run, results, mom>>
    /\ UNCHANGED <<arg_history, arg_round, ret_pattern, path, pc>>
    /\ UNCHANGED evalVars

\* the metrics and the results dict, when the loop is over
BacktestMomentumFinish ==
    /\ run.harness = "momentum"
    /\ results = Pending
    /\ current_index >= Len(run.history) - Lookahead
    /\ results' =
         LET always ==
               [config |-> config,
                total_predictions |-> tally.total_predictions,
                total_completions |-> tally.total_completions,
                success_rate |-> Rate(tally.total_completions, tally.total_predictions),
                avg_rounds_to_hit |-> Mean(tally.rounds_to_hit),
                pattern_changes |-> tally.pattern_changes]
         IN  IF Truthy(run.bet_multis)
               THEN always @@
                    [total_maintaining |-> tally.total_maintaining,
                     maintaining_rate |-> Rate(tally.total_maintaining,
                                               tally.total_predictions),
                     avg_profit |-> Mean(tally.profits)]
               ELSE always
    /\ UNCHANGED <<run, current_index, tally, step, mom>>
    /\ UNCHANGED generatorVars
    /\ UNCHANGED evalVars

-----------------------------------------------------------------------------
(* Pattern discovery and filtering, optimize-pattern-params.py *)

\* [<<x>> \o c for c in combos]
RECURSIVE PrependAll(_, _)
PrependAll(x, combos) ==
    IF combos = <<>> THEN <<>>
    ELSE <<<<x>> \o Head(combos)>> \o PrependAll(x, Tail(combos))

\* itertools.combinations(arr, k), in the order it yields them
RECURSIVE Combinations(_, _)
Combinations(arr, k) ==
    IF k = 0 THEN <<<<>>>>
    ELSE IF arr = <<>> THEN <<>>
    ELSE PrependAll(Head(arr), Combinations(Tail(arr), k - 1))
         \o Combinations(Tail(arr), k)

\* get_drawn_numbers(round_data) as the list the data holds: the round's own
\* order where it records one, ascending otherwise
Listed(round_data) ==
    IF "listed" \in DOMAIN round_data THEN round_data.listed
    ELSE FilterSeq(NumberList, get_drawn_numbers(round_data))

\* get_combinations(arr, k)
get_combinations(arr, k) == Combinations(arr, k)

\* decay_factor ** rounds_ago
RECURSIVE RatPow(_, _)
RatPow(a, n) ==
    IF n = 0 THEN <<1, 1>>
    ELSE LET rest == RatPow(a, n - 1) IN <<a[1] * rest[1], a[2] * rest[2]>>

\* pattern_scores[key] += weight, on a dict kept in insertion order
RECURSIVE AddScore(_, _, _)
AddScore(pattern_scores, key, weight) ==
    IF pattern_scores = <<>> THEN <<[numbers |-> key, key |-> weight]>>
    ELSE IF Head(pattern_scores).numbers = key
      THEN <<[numbers |-> key, key |-> RatAdd(Head(pattern_scores).key, weight)]>>
           \o Tail(pattern_scores)
    ELSE <<Head(pattern_scores)>> \o AddScore(Tail(pattern_scores), key, weight)

RECURSIVE AddScores(_, _, _)
AddScores(pattern_scores, combos, weight) ==
    IF combos = <<>> THEN pattern_scores
    ELSE AddScores(AddScore(pattern_scores, SortAsc(Head(combos)), weight),
                   Tail(combos), weight)
\* ScoreRounds counting the age of a round from the first round of the window
RECURSIVE ScoreRounds_oldest(_, _, _, _, _, _)
ScoreRounds_oldest(pattern_scores, window, idx, pattern_size, use_recency, decay_factor) ==
    IF idx >= Len(window) THEN pattern_scores
    ELSE LET combos == get_combinations(Listed(window[idx + 1]), pattern_size)
             rounds_ago == idx
             weight == IF use_recency THEN RatPow(decay_factor, rounds_ago)
                       ELSE <<1, 1>>
         IN  ScoreRounds_oldest(AddScores(pattern_scores, combos, weight), window,
                                idx + 1, pattern_size, use_recency, decay_factor)

\* ScoreRounds weighing every round by its age, whatever use_recency says
RECURSIVE ScoreRounds_weighted(_, _, _, _, _, _)
ScoreRounds_weighted(pattern_scores, window, idx, pattern_size, use_recency, decay_factor) ==
    IF idx >= Len(window) THEN pattern_scores
    ELSE LET combos == get_combinations(Listed(window[idx + 1]), pattern_size)
             rounds_ago == Len(window) - idx - 1
             weight == RatPow(decay_factor, rounds_ago)
         IN  ScoreRounds_weighted(AddScores(pattern_scores, combos, weight), window,
                                  idx + 1, pattern_size, use_recency, decay_factor)

\* the loop over enumerate(sample), from position idx (0-based) on
RECURSIVE ScoreRounds(_, _, _, _, _, _)
ScoreRounds(pattern_scores, window, idx, pattern_size, use_recency, decay_factor) ==
    IF idx >= Len(window) THEN pattern_scores
    ELSE LET combos == get_combinations(Listed(window[idx + 1]), pattern_size)
             rounds_ago == Len(window) - idx - 1
             weight == IF use_recency THEN RatPow(decay_factor, rounds_ago)
                       ELSE <<1, 1>>
         IN  ScoreRounds(AddScores(pattern_scores, combos, weight), window,
                         idx + 1, pattern_size, use_recency, decay_factor)

\* [{'numbers': list(nums), 'count': score} for nums, score in items]
RECURSIVE PatternObjs(_)
PatternObjs(items) ==
    IF items = <<>> THEN <<>>
    ELSE <<[numbers |-> Head(items).numbers, count |-> Head(items).key]>>
         \o PatternObjs(Tail(items))
\* find_common_patterns cutting the scored patterns at top_n without sorting
find_common_patterns_unsorted(history, pattern_size, top_n, discovery_window, use_recency, decay_factor) ==
    LET window == LastN(history, discovery_window)
        pattern_scores == ScoreRounds(<<>>, window, 0, pattern_size,
                                      use_recency, decay_factor)
    IN  PatternObjs(FirstN(pattern_scores, top_n))

find_common_patterns(history, pattern_size, top_n, discovery_window, use_recency, decay_factor) ==
    LET window == LastN(history, discovery_window)
        pattern_scores == ScoreRounds(<<>>, window, 0, pattern_size,
                                      use_recency, decay_factor)
        sorted_patterns == SortByKeyDesc(pattern_scores)
    IN  PatternObjs(FirstN(sorted_patterns, top_n))
\* Matches counting the whole pattern as soon as one of its numbers is drawn
Matches_any(pattern, drawn_set) ==
    IF \E i \in 1..Len(pattern) : pattern[i] \in drawn_set THEN Len(pattern) ELSE 0

\* sum(1 for num in pattern if num in drawn_set)
Matches(pattern, drawn_set) ==
    Cardinality({i \in 1..Len(pattern) : pattern[i] \in drawn_set})
\* check_pattern_buildup with `min_hits < matches` for `min_hits <= matches`
RECURSIVE check_pattern_buildup_above(_, _, _, _, _)
check_pattern_buildup_above(pattern, sample_cache, min_hits, max_hits, pattern_size) ==
    IF sample_cache = <<>> THEN <<>>
    ELSE LET matches == Matches(pattern, Head(sample_cache))
         IN  (IF min_hits < matches /\ matches <= max_hits
                THEN <<matches>> ELSE <<>>)
             \o check_pattern_buildup_above(pattern, Tail(sample_cache),
                                            min_hits, max_hits, pattern_size)

RECURSIVE check_pattern_buildup(_, _, _, _, _)
check_pattern_buildup(pattern, sample_cache, min_hits, max_hits, pattern_size) ==
    IF sample_cache = <<>> THEN <<>>
    ELSE LET matches == Matches(pattern, Head(sample_cache))
         IN  (IF min_hits <= matches /\ matches <= max_hits
                THEN <<matches>> ELSE <<>>)
             \o check_pattern_buildup(pattern, Tail(sample_cache),
                                      min_hits, max_hits, pattern_size)

\* the loop of check_last_full_hit from index i (0-based) down
RECURSIVE LastFullHitFrom(_, _, _, _)
LastFullHitFrom(pattern, tracking_cache, pattern_size, i) ==
    IF i < 0 THEN 0 - 1
    ELSE IF Matches(pattern, tracking_cache[i + 1]) = pattern_size THEN i
    ELSE LastFullHitFrom(pattern, tracking_cache, pattern_size, i - 1)
\* check_last_full_hit scanning from the first round on: the least index
check_last_full_hit_first(pattern, tracking_cache, pattern_size) ==
    LET full == {i \in 0..(Len(tracking_cache) - 1) :
                    Matches(pattern, tracking_cache[i + 1]) = pattern_size}
    IN  IF full = {} THEN 0 - 1
        ELSE CHOOSE i \in full : \A j \in full : i <= j

check_last_full_hit(pattern, tracking_cache, pattern_size) ==
    LastFullHitFrom(pattern, tracking_cache, pattern_size, Len(tracking_cache) - 1)

\* [set(get_drawn_numbers(r)) for r in rounds]
RECURSIVE DrawnSets(_)
DrawnSets(rounds) ==
    IF rounds = <<>> THEN <<>>
    ELSE <<get_drawn_numbers(Head(rounds))>> \o DrawnSets(Tail(rounds))

-----------------------------------------------------------------------------
(* run_backtest of optimize-pattern-params.py *)

\* discovery_history = history[max(0, current_idx - discovery_window):current_idx]
discovery_history(current_idx) ==
    [lo |-> Max(0, current_idx - DiscoveryWindow), hi |-> current_idx]

\* sample = history[current_idx - sample_size:current_idx]
sample(current_idx, sample_size) ==
    [lo |-> current_idx - sample_size, hi |-> current_idx]

\* tracking = history[max(0, current_idx - 1000):current_idx]
tracking(current_idx) ==
    [lo |-> Max(0, current_idx - TrackingWindow), hi |-> current_idx]

\* future_rounds = history[current_idx:current_idx + lookahead_rounds]
future_rounds(current_idx, lookahead_rounds) ==
    [lo |-> current_idx, hi |-> current_idx + lookahead_rounds]

\* the body of `for pattern_obj in all_patterns`: does pattern_obj reach
\* filtered_patterns
Qualifies(pattern_obj, sample_cache, tracking_cache, params, pattern_size) ==
    LET pattern == pattern_obj.numbers
        buildups == check_pattern_buildup(pattern, sample_cache, params.min_hits,
                                          params.max_hits, pattern_size)
        hit_count == Len(buildups)
        last_full_hit_idx == check_last_full_hit(pattern, tracking_cache, pattern_size)
        bets_ago == (Len(tracking_cache) - 1) - last_full_hit_idx
    IN  /\ buildups # <<>>
        /\ ~(hit_count * 100 < MinHitRate * Len(sample_cache))
        /\ ~(params.not_hit_in > 0 /\ last_full_hit_idx # 0 - 1
               /\ bets_ago < params.not_hit_in)

RECURSIVE FilterPatterns(_, _, _, _, _)
FilterPatterns(all_patterns, sample_cache, tracking_cache, params, pattern_size) ==
    IF all_patterns = <<>> THEN <<>>
    ELSE (IF Qualifies(Head(all_patterns), sample_cache, tracking_cache,
                       params, pattern_size)
            THEN <<Head(all_patterns)>> ELSE <<>>)
         \o FilterPatterns(Tail(all_patterns), sample_cache, tracking_cache,
                           params, pattern_size)

ParamsGrid ==
    [sample_size : {1, 3}, min_hits : {1}, max_hits : {1, 2}, not_hit_in : {0, 1}]

ParamsTally ==
    [total_predictions |-> 0, total_successes |-> 0, total_maintaining |-> 0,
     total_rounds_to_hit |-> <<>>, total_profit |-> <<>>, evaluation_points |-> 0]

InitBacktestParams ==
    /\ run \in [harness : {"params"}, history : BacktestHistories,
                params : ParamsGrid, pattern_size : {1, 2},
                bet_multis : {NoBetMultis, [high |-> Payouts(1, 4, 1)]},
                difficulty : {"high"},
                use_recency : BOOLEAN, decay_factor : {<<1, 2>>}]
    /\ current_index = Max(DiscoveryWindow, run.params.sample_size) + ParamsBuffer
    /\ tally = ParamsTally
    /\ step = Pending
    /\ results = Pending
    /\ config \in {c \in BacktestConfigs :
                     /\ c.pattern_size = 1 /\ c.refresh_frequency = 2
                     /\ c.detection_window = 1 /\ c.baseline_window = 1}
    /\ GeneratorFresh
    /\ mom = NoCall
    /\ EvalIdle

\* one pass of the loop
\*   for iteration, current_idx in enumerate(range(start_idx, len(history) - lookahead, step_size), 1)
BacktestParamsStep ==
    /\ run.harness = "params"
    /\ results = Pending
    /\ current_index < Len(run.history) - Lookahead
    /\ \E all_patterns \in
             {find_common_patterns(SliceOf(run.history, discovery_history(current_index)),
                                   run.pattern_size, TopN, DiscoveryWindow,
                                   run.use_recency, run.decay_factor)} :
       \E filtered_patterns \in
             {IF all_patterns = <<>> THEN <<>>
              ELSE FilterPatterns(
                     all_patterns,
                     DrawnSets(SliceOf(run.history,
                                       sample(current_index, run.params.sample_size))),
                     DrawnSets(SliceOf(run.history, tracking(current_index))),
                     run.params, run.pattern_size)} :
       \E outcome \in
             {evaluate_predictions(run.history, current_index, filtered_patterns,
                                   Lookahead, run.pattern_size, run.bet_multis,
                                   run.difficulty)} :
           /\ tally' =
                IF filtered_patterns = <<>> THEN tally
                ELSE [total_predictions |-> tally.total_predictions + outcome.predictions,
                      total_successes |-> tally.total_successes + outcome.successes,
                      total_maintaining |-> tally.total_maintaining + outcome.maintaining,
                      total_rounds_to_hit |->
                          IF RatGT(outcome.avg_rounds, <<0, 1>>)
                            THEN Append(tally.total_rounds_to_hit, outcome.avg_rounds)
                            ELSE tally.total_rounds_to_hit,
                      total_profit |->
                          IF ~RatEQ(outcome.avg_profit, <<0, 1>>)
                            THEN Append(tally.total_profit, outcome.avg_profit)
                            ELSE tally.total_profit,
                      evaluation_points |-> tally.evaluation_points + 1]
           /\ step' = [at |-> current_index,
                       past |-> IF all_patterns = <<>>
                                  THEN SliceIdx(run.history, discovery_history(current_index))
                                  ELSE SliceIdx(run.history, discovery_history(current_index))
                                       \cup SliceIdx(run.history,
                                                     sample(current_index, run.params.sample_size))
                                       \cup SliceIdx(run.history, tracking(current_index)),
                       future |-> IF filtered_patterns = <<>> THEN {}
                                  ELSE SliceIdx(run.history,
                                                future_rounds(current_index, Lookahead)),
                       patterns |-> filtered_patterns,
                       path |-> IF all_patterns = <<>> THEN "no patterns"
                                ELSE IF filtered_patterns = <<>> THEN "none qualifies"
                                ELSE "evaluated",
                       outcome |-> IF filtered_patterns = <<>> THEN Pending ELSE outcome,
                       predicted |-> Evaluated \o
                           [k \in 1..Len(filtered_patterns) |->
                               [at |-> current_index,
                                numbers |-> filtered_patterns[k].numbers]],
                       realized |-> Realized \o outcome.profits]
    /\ current_index' = current_index + StepSize
    /\ UNCHANGED <<run, results, mom>>
    /\ UNCHANGED generatorVars
    /\ UNCHANGED evalVars

\* the metrics and the results dict, when the loop is over
BacktestParamsFinish ==
    /\ run.harness = "params"
    /\ results = Pending
    /\ current_index >= Len(run.history) - Lookahead
    /\ results' =
         [params |-> run.params,
          evaluation_points |-> tally.evaluation_points,
          total_predictions |-> tally.total_predictions,
          total_successes |-> tally.total_successes,
          total_maintaining |-> tally.total_maintaining,
          success_rate |-> Rate(tally.total_successes, tally.total_predictions),
          maintaining_rate |-> Rate(tally.total_maintaining, tally.total_predictions),
          avg_rounds_to_hit |-> RatMean(tally.total_rounds_to_hit),
          avg_predictions_per_point |->
              IF tally.evaluation_points > 0
                THEN <<tally.total_predictions, tally.evaluation_points>>
                ELSE <<0, 1>>,
          avg_profit |-> RatMean(tally.total_profit)]
    /\ UNCHANGED <<run, current_index, tally, step, mom>>
    /\ UNCHANGED generatorVars
    /\ UNCHANGED evalVars

InitBacktest == InitBacktestMomentum \/ InitBacktestParams

NextBacktest ==
    \/ BacktestMomentumStep
    \/ BacktestMomentumFinish
    \/ BacktestParamsStep
    \/ BacktestParamsFinish

SpecBacktest == InitBacktest /\ [][NextBacktest]_vars

-----------------------------------------------------------------------------
(* Claims about the harnesses *)

\* C1: no look-ahead -- at every evaluation point of both harnesses, every
\* round read to produce or filter the pattern (history prefix, discovery,
\* sample and tracking windows) has an index below current_idx, every round
\* read by the completion evaluator has an index of at least current_idx, and
\* the two index sets do not overlap.
C1_NoLookAhead ==
    step # Pending =>
        /\ \A i \in step.past : 0 <= i /\ i < step.at
        /\ \A j \in step.future : step.at <= j /\ j < Len(run.history)
        /\ step.past \cap step.future = {}

\* An evaluation point of the pattern-params harness whose sample window
\* reaches further back than the discovery window, with patterns evaluated
\* on the rounds from current_idx on.
C1_Witness ==
    /\ step # Pending
    /\ run.harness = "params"
    /\ step.path = "evaluated"
    /\ run.params.sample_size > DiscoveryWindow
    /\ step.past = (step.at - TrackingWindow)..(step.at - 1)
    /\ step.future = step.at..(step.at + Lookahead - 1)

\* C10: without a payout table the evaluator reports profit 0 for every
\* pattern, the harness records no profit and a maintaining count of 0, and
\* completion and rounds_to_hit are what they are with a payout table.
C10_NoPayoutTable ==
    (step # Pending /\ run.bet_multis = NoBetMultis) =>
        /\ tally.total_maintaining = 0
        /\ run.harness = "momentum" =>
             /\ step.outcome.profit = 0
             /\ tally.profits = <<>>
             /\ \A table \in PayoutTables :
                  LET with == evaluate_pattern_performance(
                                  SliceOf(run.history,
                                          future_history(run.history, step.at)),
                                  step.patterns[1], Lookahead, table, run.difficulty)
                  IN  /\ with.completed = step.outcome.completed
                      /\ with.rounds_to_hit = step.outcome.rounds_to_hit
             /\ results # Pending =>
                  /\ DOMAIN results \cap {"total_maintaining", "maintaining_rate",
                                          "avg_profit"} = {}
                  /\ results.total_completions = tally.total_completions
        /\ run.harness = "params" =>
             /\ tally.total_profit = <<>>
             /\ step.outcome # Pending =>
                  /\ step.outcome.profits = <<>>
                  /\ step.outcome.avg_profit = <<0, 1>>
                  /\ step.outcome.maintaining = 0
                  /\ \A table \in PayoutTables :
                       LET with == evaluate_predictions(
                                       run.history, step.at, step.patterns,
                                       Lookahead, run.pattern_size, table,
                                       run.difficulty)
                       IN  /\ with.successes = step.outcome.successes
                           /\ with.rounds_to_hit = step.outcome.rounds_to_hit
                           /\ with.avg_rounds = step.outcome.avg_rounds
             /\ results # Pending =>
                  /\ results.total_maintaining = 0
                  /\ results.avg_profit = <<0, 1>>

\* A momentum backtest without a payout table is over, after two evaluation
\* points, the last of them with a completion in round 2 of its window.
C10_Witness ==
    /\ run.harness = "momentum"
    /\ run.bet_multis = NoBetMultis
    /\ results # Pending
    /\ tally.total_predictions = 2
    /\ step.outcome.completed
    /\ step.outcome.rounds_to_hit = 2
    /\ tally.profits = <<>>

-----------------------------------------------------------------------------
(* Claims about the evaluators, continued *)

\* the rounds of history (0-based) evaluate_predictions reads: none on its
\* early return, history[current_idx:current_idx + lookahead_rounds] otherwise
PredictionsReadIdx ==
    IF ev.current_idx + ev.lookahead_rounds > Len(ev.history) THEN {}
    ELSE SliceIdx(ev.history, future_rounds(ev.current_idx, ev.lookahead_rounds))

\* the rounds of history (0-based) evaluate_pattern_performance reads through
\* history[current_idx:][:lookahead_rounds]: none on its early return
PerformanceReadIdx ==
    IF ev.lookahead_rounds
         > Len(SliceOf(ev.history, future_history(ev.history, ev.current_idx)))
      THEN {}
    ELSE FutureRoundsIdx(ev.history, ev.current_idx, ev.lookahead_rounds)

\* C11: if lookahead_rounds exceeds the number of rounds available from the
\* evaluation point on, evaluate_predictions returns all zeros,
\* evaluate_pattern_performance returns (not completed, 0, 0), and no round
\* index outside the history is read.
C11_ShortFuture ==
    /\ (perf # Pending /\ ~HasWindow) =>
          perf = [completed |-> FALSE, rounds_to_hit |-> 0, profit |-> 0]
    /\ (preds # Pending /\ ~HasWindow) =>
          /\ preds.predictions = 0 /\ preds.successes = 0
          /\ preds.avg_rounds = <<0, 1>> /\ preds.maintaining = 0
          /\ preds.avg_profit = <<0, 1>>
    /\ ~HasWindow => PredictionsReadIdx = {} /\ PerformanceReadIdx = {}
    /\ PredictionsReadIdx \subseteq 0..(Len(ev.history) - 1)
    /\ PerformanceReadIdx \subseteq 0..(Len(ev.history) - 1)

\* One round is left from the evaluation point on, it completes the pattern,
\* two rounds are asked for, and both evaluators have returned.
C11_Witness ==
    /\ perf # Pending /\ preds # Pending
    /\ ~HasWindow
    /\ ev.lookahead_rounds = 2
    /\ Len(ev.history) = ev.current_idx + 1
    /\ SeqRange(ev.patterns[1].numbers) \subseteq ev.history[Len(ev.history)].drawn
    /\ Truthy(ev.bet_multis)

-----------------------------------------------------------------------------
(* Pattern discovery and the filters on their own: one call of one function *)

\* the lists of k distinct numbers
DistinctLists(k) ==
    {p \in [1..k -> Numbers] : \A i, j \in 1..k : i # j => p[i] # p[j]}

\* the patterns passed to the filters: 1..DrawCount distinct numbers, any order
PatternInputs == UNION {DistinctLists(k) : k \in 1..DrawCount}

\* [set(get_drawn_numbers(r)) for r in rounds] of every history of the game
CacheInputs == {DrawnSets(h) : h \in GameHistories}

\* a round of the game with its numbers listed in ascending or in descending
\* order
ListedRounds ==
    {[drawn |-> SeqRange(l), listed |-> l] :
        l \in {p \in DistinctLists(DrawCount) :
                 \/ \A i \in 1..(DrawCount - 1) : p[i] < p[i + 1]
                 \/ \A i \in 1..(DrawCount - 1) : p[i] > p[i + 1]}}

\* the decay factors of the calls
DecayFactors == {<<1, 2>>, <<9, 10>>}

InitPatterns ==
    /\ config \in {c \in MomentumConfigs : c.detection_window = 1 /\ c.baseline_window = 1}
    /\ GeneratorFresh
    /\ mom = NoCall
    /\ EvalIdle
    /\ HarnessIdle

CheckPatternBuildup ==
    /\ call = Pending
    /\ \E pattern \in PatternInputs, sample_cache \in CacheInputs,
          min_hits \in 0..DrawCount, max_hits \in 0..DrawCount :
         call' = [fn |-> "check_pattern_buildup", pattern |-> pattern,
                  sample_cache |-> sample_cache,
                  min_hits |-> min_hits, max_hits |-> max_hits,
                  pattern_size |-> Len(pattern),
                  result |-> check_pattern_buildup(pattern, sample_cache, min_hits,
                                                   max_hits, Len(pattern))]
    /\ UNCHANGED <<ev, perf, preds, mom>>
    /\ UNCHANGED generatorVars
    /\ UNCHANGED harnessVars

CheckLastFullHit ==
    /\ call = Pending
    /\ \E pattern \in PatternInputs, tracking_cache \in CacheInputs :
         call' = [fn |-> "check_last_full_hit", pattern |-> pattern,
                  tracking_cache |-> tracking_cache,
                  pattern_size |-> Len(pattern),
                  result |-> check_last_full_hit(pattern, tracking_cache, Len(pattern))]
    /\ UNCHANGED <<ev, perf, preds, mom>>
    /\ UNCHANGED generatorVars
    /\ UNCHANGED harnessVars

FindCommonPatterns ==
    /\ call = Pending
    /\ \E history \in SeqsUpTo(ListedRounds, MaxHist),
          pattern_size \in 1..DrawCount, top_n \in 1..DrawCount,
          discovery_window \in 1..MaxHist, use_recency \in BOOLEAN,
          decay_factor \in DecayFactors :
         call' = [fn |-> "find_common_patterns", history |-> history,
                  pattern_size |-> pattern_size, top_n |-> top_n,
                  discovery_window |-> discovery_window,
                  use_recency |-> use_recency, decay_factor |-> decay_factor,
                  result |-> find_common_patterns(history, pattern_size, top_n,
                                                  discovery_window, use_recency,
                                                  decay_factor)]
    /\ UNCHANGED <<ev, perf, preds, mom>>
    /\ UNCHANGED generatorVars
    /\ UNCHANGED harnessVars

NextPatterns == CheckPatternBuildup \/ CheckLastFullHit \/ FindCommonPatterns

SpecPatterns == InitPatterns /\ [][NextPatterns]_vars

-----------------------------------------------------------------------------
(* Claims about discovery and the filters *)

IsBuildupCall == call # Pending /\ call.fn = "check_pattern_buildup"

\* |pattern /\ drawn| in round i (1-based) of the window of the call
HitCount(i) == Cardinality(SeqRange(call.pattern) \cap call.sample_cache[i])

\* the rounds of the window whose hit count lies in [min_hits, max_hits]
BuildupRounds ==
    {i \in 1..Len(call.sample_cache) :
        call.min_hits <= HitCount(i) /\ HitCount(i) <= call.max_hits}

\* the k-th of them, in window order
NthBuildupRound(k) ==
    CHOOSE i \in BuildupRounds : Cardinality({j \in BuildupRounds : j <= i}) = k

\* C12: check_pattern_buildup returns one entry per round of the window whose
\* hit count |pattern /\ drawn| lies in [min_hits, max_hits], in window order;
\* no entry is outside [min_hits, max_hits] and there are never more entries
\* than rounds.
C12_Buildups ==
    IsBuildupCall =>
        /\ Len(call.result) = Cardinality(BuildupRounds)
        /\ \A k \in 1..Len(call.result) :
              /\ call.result[k] = HitCount(NthBuildupRound(k))
              /\ call.min_hits <= call.result[k] /\ call.result[k] <= call.max_hits
        /\ Len(call.result) <= Len(call.sample_cache)

\* A two-round window of which only the second round qualifies, with a hit
\* count equal to min_hits.
C12_Witness ==
    /\ IsBuildupCall
    /\ Len(call.sample_cache) = 2
    /\ BuildupRounds = {2}
    /\ HitCount(2) = call.min_hits
    /\ call.min_hits < call.max_hits
    /\ call.result = <<call.min_hits>>

-----------------------------------------------------------------------------
(* Claims about the filters inside run_backtest (optimize-pattern-params.py) *)

IsParamsStep == step # Pending /\ run.harness = "params"

\* the windows of the evaluation point of the last pass
StepDiscovery == SliceOf(run.history, discovery_history(step.at))
StepSample == SliceOf(run.history, sample(step.at, run.params.sample_size))
StepTracking == SliceOf(run.history, tracking(step.at))

\* the patterns discovered at the evaluation point of the last pass
StepAllPatterns ==
    find_common_patterns(StepDiscovery, run.pattern_size, TopN, DiscoveryWindow,
                         run.use_recency, run.decay_factor)

FullyContains(round_data, numbers) == SeqRange(numbers) \subseteq round_data.drawn

\* the indices (0-based) of the tracking window whose round holds the pattern
FullHits(numbers) ==
    {i \in 0..(Len(StepTracking) - 1) : FullyContains(StepTracking[i + 1], numbers)}

\* the last n rounds before the evaluation point, within the tracking window
RecentIdx(n) ==
    {i \in 0..(Len(StepTracking) - 1) : i >= Len(StepTracking) - n}

\* the buildup and hit-rate conditions of the filter loop
PassesBuildup(numbers) ==
    LET hits(i) == Cardinality(SeqRange(numbers) \cap StepSample[i].drawn)
        rounds == {i \in 1..Len(StepSample) :
                     run.params.min_hits <= hits(i) /\ hits(i) <= run.params.max_hits}
    IN  /\ rounds # {}
        /\ Cardinality(rounds) * 100 >= MinHitRate * Len(StepSample)

NotHitRecently(numbers) == FullHits(numbers) \cap RecentIdx(run.params.not_hit_in) = {}

\* C13: check_last_full_hit returns the greatest index of the tracking window
\* whose round fully contains the pattern, or -1; with not_hit_in > 0 a pattern
\* reaches the evaluator only if none of the last not_hit_in rounds before the
\* evaluation point, within the tracking window, fully contains it; with
\* not_hit_in = 0 no pattern is rejected for recency.
C13_RecencyExclusion ==
    IsParamsStep =>
        \A all_patterns \in {StepAllPatterns} :
            /\ \A k \in 1..Len(all_patterns) :
                  \A full \in {FullHits(all_patterns[k].numbers)} :
                  \A last \in {check_last_full_hit(all_patterns[k].numbers,
                                                    DrawnSets(StepTracking),
                                                    run.pattern_size)} :
                      /\ full = {} => last = 0 - 1
                      /\ full # {} =>
                            /\ last \in full
                            /\ \A i \in full : i <= last
            /\ run.params.not_hit_in > 0 =>
                  \A k \in 1..Len(step.patterns) :
                      NotHitRecently(step.patterns[k].numbers)
            /\ run.params.not_hit_in = 0 =>
                  step.patterns = SelectSeq(all_patterns,
                                            LAMBDA p : PassesBuildup(p.numbers))
            /\ step.patterns = SelectSeq(all_patterns,
                                         LAMBDA p : /\ PassesBuildup(p.numbers)
                                                    /\ NotHitRecently(p.numbers))

\* With not_hit_in = 1, a pattern that passes the buildup conditions is kept
\* from the evaluator because the last round of the tracking window holds it,
\* and a pattern whose last full hit is one round older is evaluated.
C13_Witness ==
    /\ IsParamsStep
    /\ run.params.not_hit_in = 1
    /\ \E k \in 1..Len(StepAllPatterns) :
          LET numbers == StepAllPatterns[k].numbers
          IN  /\ PassesBuildup(numbers)
              /\ Len(StepTracking) - 1 \in FullHits(numbers)
              /\ \A j \in 1..Len(step.patterns) : step.patterns[j].numbers # numbers
    /\ \E j \in 1..Len(step.patterns) :
          FullHits(step.patterns[j].numbers) = {0, Len(StepTracking) - 2}

IsLastFullHitCall == call # Pending /\ call.fn = "check_last_full_hit"

\* C13, the function on its own: for every pattern and tracking window,
\* check_last_full_hit returns the greatest index whose drawn set holds the
\* whole pattern, or -1 if there is none.
C13_LastFullHit ==
    IsLastFullHitCall =>
        LET full == {i \in 0..(Len(call.tracking_cache) - 1) :
                        SeqRange(call.pattern) \subseteq call.tracking_cache[i + 1]}
        IN  IF full = {} THEN call.result = 0 - 1
            ELSE call.result \in full /\ \A i \in full : i <= call.result

\* C14: for every pattern the harness discovers and every round of the
\* dataset, the count test of check_last_full_hit (the number of pattern
\* members in the drawn set equals pattern_size) holds exactly when the subset
\* test of the evaluator (every pattern number is drawn) holds.
C14_CompletionConsistency ==
    IsParamsStep =>
        \A all_patterns \in {StepAllPatterns} :
        \A k \in 1..Len(all_patterns) : \A i \in 1..Len(run.history) :
            LET numbers == all_patterns[k].numbers
                round_data == run.history[i]
            IN  /\ (Matches(numbers, get_drawn_numbers(round_data)) = run.pattern_size)
                     <=> (SeqRange(numbers) \subseteq get_drawn_numbers(round_data))
                /\ (check_last_full_hit(numbers, DrawnSets(<<round_data>>),
                                        run.pattern_size) = 0)
                     <=> (FirstCompletion(SeqRange(numbers), <<round_data>>, 1) = 1)

\* A discovered pattern of two numbers meets a round that holds both of its
\* numbers and a round that holds only one of them.
C14_Witness ==
    /\ IsParamsStep
    /\ run.pattern_size = 2
    /\ \E k \in 1..Len(StepAllPatterns) :
          LET numbers == StepAllPatterns[k].numbers
          IN  /\ \E i \in 1..Len(run.history) :
                    Matches(numbers, get_drawn_numbers(run.history[i])) = 2
              /\ \E i \in 1..Len(run.history) :
                    Matches(numbers, get_drawn_numbers(run.history[i])) = 1

-----------------------------------------------------------------------------
(* Claims about find_common_patterns *)

IsDiscoveryCall == call # Pending /\ call.fn = "find_common_patterns"

\* the window of the call and the rounds of the history before it
CallWindow == LastN(call.history, call.discovery_window)
CallBefore == FirstN(call.history, Len(call.history) - Len(CallWindow))

\* the orders of n rounds
Orders(n) == {f \in [1..n -> 1..n] : \A i, j \in 1..n : f[i] = f[j] => i = j}

\* the history with the rounds of its window put in order f
Reordered(f) == CallBefore \o [i \in 1..Len(CallWindow) |-> CallWindow[f[i]]]

\* the call repeated on another history
ResultOn(history) ==
    find_common_patterns(history, call.pattern_size, call.top_n,
                         call.discovery_window, call.use_recency, call.decay_factor)

\* every pattern of the window with its accumulated score, before the sort
ScoresOn(history) ==
    SeqRange(ScoreRounds(<<>>, LastN(history, call.discovery_window), 0,
                         call.pattern_size, call.use_recency, call.decay_factor))

\* the patterns of a result list
NumbersIn(result) == {result[k].numbers : k \in 1..Len(result)}

\* C15 as stated: with use_recency = False, find_common_patterns returns the
\* same list for every order of the rounds inside the window.
C15_AsStated ==
    (IsDiscoveryCall /\ ~call.use_recency) =>
        \A f \in Orders(Len(CallWindow)) : ResultOn(Reordered(f)) = call.result

\* C15, corrected: with use_recency = False, for every order of the rounds
\* inside the window every pattern accumulates the same score, the returned
\* list has the same length and the same scores position by position, and
\* every pattern scoring strictly more than the last returned entry is
\* returned; which of several equally scored patterns are returned, and in
\* which order, follows the order of the rounds.
C15_ScoresInvariant ==
    (IsDiscoveryCall /\ ~call.use_recency) =>
        \A f \in Orders(Len(CallWindow)) :
            LET other == ResultOn(Reordered(f))
                n == Len(call.result)
            IN  /\ ScoresOn(Reordered(f)) = ScoresOn(call.history)
                /\ Len(other) = n
                /\ \A k \in 1..n : other[k].count = call.result[k].count
                /\ \A k \in 1..n :
                      RatGT(call.result[k].count, call.result[n].count)
                          => call.result[k].numbers \in NumbersIn(other)

\* An unweighted call whose window holds two different rounds, one pattern
\* scoring more than the others and more patterns than top_n: some order of
\* the rounds returns other patterns, with the same scores.
C15_Witness ==
    /\ IsDiscoveryCall
    /\ ~call.use_recency
    /\ Len(CallWindow) = 2
    /\ Len(call.result) = 2
    /\ RatGT(call.result[1].count, call.result[2].count)
    /\ Cardinality(ScoresOn(call.history)) > call.top_n
    /\ \E f \in Orders(2) : NumbersIn(ResultOn(Reordered(f))) # NumbersIn(call.result)

\* the positions (1-based) of the window whose round holds the whole pattern
OccursAt(numbers, window) ==
    {i \in 1..Len(window) : SeqRange(numbers) \subseteq window[i].drawn}

\* decay_factor^(n - i) summed over the positions i..n of the window, of n
\* rounds, whose round holds the pattern
RECURSIVE DecayedFrom(_, _, _)
DecayedFrom(numbers, window, i) ==
    IF i > Len(window) THEN <<0, 1>>
    ELSE IF i \in OccursAt(numbers, window)
      THEN RatAdd(RatPow(call.decay_factor, Len(window) - i),
                  DecayedFrom(numbers, window, i + 1))
    ELSE DecayedFrom(numbers, window, i + 1)

\* the score of a pattern among the scored patterns of a history
ScoreOf(numbers, history) ==
    (CHOOSE e \in ScoresOn(history) : e.numbers = numbers).key

\* C16: with use_recency = True every occurrence of a pattern in the round at
\* position idx of a window of n rounds adds decay_factor^(n - 1 - idx) to its
\* score, the last round weighing 1; a pattern occurring only in the most
\* recent round scores strictly more than a pattern occurring only in one
\* older round; and moving the only round that holds a pattern to another
\* position of the window changes the pattern's score.
C16_RecencyWeights ==
    (IsDiscoveryCall /\ call.use_recency) =>
        LET n == Len(CallWindow)
            scores == ScoresOn(call.history)
        IN  /\ \A e \in scores :
                  /\ OccursAt(e.numbers, CallWindow) # {}
                  /\ RatEQ(e.key, DecayedFrom(e.numbers, CallWindow, 1))
            /\ \A k \in 1..Len(call.result) :
                  RatEQ(call.result[k].count,
                        DecayedFrom(call.result[k].numbers, CallWindow, 1))
            /\ \A p \in scores : \A q \in scores :
                  (/\ OccursAt(p.numbers, CallWindow) = {n}
                   /\ \E i \in 1..(n - 1) : OccursAt(q.numbers, CallWindow) = {i})
                      => RatGT(p.key, q.key)
            /\ \A f \in Orders(n) : \A e \in scores : \A j \in 1..n :
                  (OccursAt(e.numbers, CallWindow) = {f[j]} /\ f[j] # j)
                      => ~RatEQ(ScoreOf(e.numbers, Reordered(f)), e.key)

\* A weighted call on a window of two rounds returns the pattern found only in
\* the last round ahead of the pattern found only in the first one, and with
\* the two rounds exchanged it returns them the other way round.
C16_Witness ==
    /\ IsDiscoveryCall
    /\ call.use_recency
    /\ Len(CallWindow) = 2
    /\ Len(call.result) = 2
    /\ OccursAt(call.result[1].numbers, CallWindow) = {2}
    /\ OccursAt(call.result[2].numbers, CallWindow) = {1}
    /\ call.result[1].count = <<1, 1>>
    /\ call.result[2].count = call.decay_factor
    /\ \E f \in Orders(2) :
          /\ ResultOn(Reordered(f)) # call.result
          /\ ResultOn(Reordered(f))[1].numbers = call.result[2].numbers

\* the sets of pattern_size numbers drawn together in some round of the window
WindowPatterns ==
    {S \in SUBSET Numbers :
        /\ Cardinality(S) = call.pattern_size
        /\ \E i \in 1..Len(CallWindow) : S \subseteq CallWindow[i].drawn}

\* the score a set of numbers accumulates over the window
WindowScore(S) ==
    LET numbers == FilterSeq(NumberList, S)
    IN  IF call.use_recency THEN DecayedFrom(numbers, CallWindow, 1)
        ELSE <<Cardinality(OccursAt(numbers, CallWindow)), 1>>

\* C17: find_common_patterns returns at most top_n entries, in non-increasing
\* order of score; every pattern appears at most once, as the ascending list
\* of its numbers however the rounds list them; no pattern of the window that
\* is left out scores strictly more than a returned one; and with
\* use_recency = False the score of a pattern is the number of rounds of the
\* window whose drawn set holds it.
C17_TopPatterns ==
    IsDiscoveryCall =>
        LET n == Len(call.result)
            returned == {SeqRange(call.result[k].numbers) : k \in 1..n}
        IN  /\ n <= call.top_n
            /\ \A k \in 1..(n - 1) :
                  RatGE(call.result[k].count, call.result[k + 1].count)
            /\ \A j \in 1..n : \A k \in 1..n :
                  j # k => SeqRange(call.result[j].numbers)
                             # SeqRange(call.result[k].numbers)
            /\ \A k \in 1..n :
                  /\ call.result[k].numbers = SortAsc(call.result[k].numbers)
                  /\ SeqRange(call.result[k].numbers) \in WindowPatterns
                  /\ RatEQ(call.result[k].count,
                           WindowScore(SeqRange(call.result[k].numbers)))
            /\ \A S \in WindowPatterns \ returned :
                  /\ n = call.top_n
                  /\ \A k \in 1..n : ~RatGT(WindowScore(S), call.result[k].count)
            /\ ~call.use_recency =>
                  \A k \in 1..n :
                      call.result[k].count =
                          <<Cardinality(OccursAt(call.result[k].numbers, CallWindow)), 1>>

\* An unweighted call for single numbers on two rounds listed in descending
\* order that share one number: the shared number is returned once, with
\* score 2, ahead of a number of score 1, and a third number is left out.
C17_Witness ==
    /\ IsDiscoveryCall
    /\ ~call.use_recency
    /\ call.pattern_size = 1
    /\ call.top_n = 2
    /\ Len(CallWindow) = 2
    /\ \A i \in 1..2 : CallWindow[i].listed # SortAsc(CallWindow[i].listed)
    /\ Len(call.result) = 2
    /\ call.result[1].count = <<2, 1>>
    /\ call.result[2].count = <<1, 1>>
    /\ Cardinality(WindowPatterns) = 3

\* A call for pairs on two rounds that list the same two numbers in opposite
\* orders returns the pair once, in ascending order, with both rounds counted.
C17_WitnessSorted ==
    /\ IsDiscoveryCall
    /\ ~call.use_recency
    /\ call.pattern_size = 2
    /\ Len(CallWindow) = 2
    /\ CallWindow[1].listed # CallWindow[2].listed
    /\ CallWindow[1].drawn = CallWindow[2].drawn
    /\ Len(call.result) = 1
    /\ call.result[1].numbers = SortAsc(CallWindow[1].listed)
    /\ call.result[1].count = <<2, 1>>

-----------------------------------------------------------------------------
(* Claims about the metrics of the harnesses *)

IsRunning == run # Pending /\ tally # Pending
IsFinished == run # Pending /\ results # Pending

\* the successes counted so far, under the name each harness gives them
TallySuccesses ==
    IF run.harness = "momentum" THEN tally.total_completions
    ELSE tally.total_successes

ResultSuccesses ==
    IF run.harness = "momentum" THEN results.total_completions
    ELSE results.total_successes

InPercent(rate) == RatGE(rate, <<0, 1>>) /\ RatGE(<<100, 1>>, rate)

\* C18 as stated: the success_rate of a finished run lies in [0, 100] and is 0
\* exactly when total_predictions is 0.
C18_AsStated ==
    IsFinished =>
        /\ InPercent(results.success_rate)
        /\ RatEQ(results.success_rate, <<0, 1>>) <=> results.total_predictions = 0

\* C18, corrected: at every point of a run of either harness the successes
\* counted so far are between 0 and the predictions counted so far; the
\* success_rate of the finished run lies in [0, 100], and it is 0 exactly when
\* the run counted no success, which includes every run without predictions.
C18_SuccessRate ==
    /\ IsRunning =>
          /\ 0 <= TallySuccesses
          /\ TallySuccesses <= tally.total_predictions
    /\ IsFinished =>
          /\ InPercent(results.success_rate)
          /\ RatEQ(results.success_rate, <<0, 1>>) <=> ResultSuccesses = 0
          /\ results.total_predictions = 0 => RatEQ(results.success_rate, <<0, 1>>)
          /\ results.total_predictions > 0 =>
                RatEQ(results.success_rate,
                      <<ResultSuccesses * 100, results.total_predictions>>)

\* A finished run of the pattern-parameter harness that made predictions at
\* two evaluation points and saw none of them complete: its success_rate is 0.
C18_Witness ==
    /\ IsFinished
    /\ run.harness = "params"
    /\ results.evaluation_points = 2
    /\ results.total_predictions = 2
    /\ results.total_successes = 0
    /\ RatEQ(results.success_rate, <<0, 1>>)

\* A finished run without predictions, a finished momentum run without
\* completions, and finished runs of both harnesses with a success_rate
\* strictly between 0 and 100.
C18_WitnessNoPredictions == IsFinished /\ results.total_predictions = 0
C18_WitnessMomentum ==
    /\ IsFinished
    /\ run.harness = "momentum"
    /\ results.total_predictions > 0
    /\ results.total_completions = 0
C18_WitnessBetween ==
    /\ IsFinished
    /\ run.harness = "params"
    /\ RatGT(results.success_rate, <<0, 1>>)
    /\ RatGT(<<100, 1>>, results.success_rate)
C18_WitnessMomentumBetween ==
    /\ IsFinished
    /\ run.harness = "momentum"
    /\ RatGT(results.success_rate, <<0, 1>>)
    /\ RatGT(<<100, 1>>, results.success_rate)

\* rounds_ahead of the first round of the window after the evaluation point
\* that holds the whole pattern, 0 if there is none
HitAfter(numbers, at) ==
    LET ahead == {k \in 1..Lookahead :
                    /\ at + k <= Len(run.history)
                    /\ SeqRange(numbers) \subseteq run.history[at + k].drawn}
    IN  IF ahead = {} THEN 0 ELSE CHOOSE k \in ahead : \A j \in ahead : k <= j

\* the rounds_to_hit of the successful ones among the first n evaluated
\* predictions, added up, and their number
RECURSIVE HitSum(_)
HitSum(n) ==
    IF n = 0 THEN 0
    ELSE HitSum(n - 1) + HitAfter(Evaluated[n].numbers, Evaluated[n].at)

HitCount19(n) ==
    Cardinality({k \in 1..n : HitAfter(Evaluated[k].numbers, Evaluated[k].at) > 0})

\* the mean of rounds_to_hit over the successful predictions of the run
MeanRoundsToHit ==
    LET n == Len(Evaluated)
    IN  IF HitCount19(n) = 0 THEN <<0, 1>> ELSE <<HitSum(n), HitCount19(n)>>

\* C19: the avg_rounds_to_hit of a finished run of either harness is the mean
\* of rounds_to_hit over all successful predictions of the run, each counted
\* once with the same weight, and 0 when there is none.
C19_AsStated ==
    IsFinished =>
        /\ HitCount19(Len(Evaluated)) = ResultSuccesses
        /\ RatEQ(results.avg_rounds_to_hit, MeanRoundsToHit)

\* C19 for backtest-momentum.py alone
C19_Momentum ==
    (IsFinished /\ run.harness = "momentum") =>
        /\ HitCount19(Len(Evaluated)) = results.total_completions
        /\ RatEQ(results.avg_rounds_to_hit, MeanRoundsToHit)

\* a finished momentum run with completions after one round and after two
C19_MomentumWitness ==
    /\ IsFinished
    /\ run.harness = "momentum"
    /\ results.total_completions >= 2
    /\ RatGT(results.avg_rounds_to_hit, <<1, 1>>)
    /\ RatGT(<<2, 1>>, results.avg_rounds_to_hit)

\* what optimize-pattern-params.py returns instead: the mean, over the
\* evaluation points with a success, of each point's own mean
C19_ParamsMeanOfMeans ==
    (IsFinished /\ run.harness = "params") =>
        /\ HitCount19(Len(Evaluated)) = results.total_successes
        /\ results.avg_rounds_to_hit = RatMean(tally.total_rounds_to_hit)
        /\ Len(tally.total_rounds_to_hit) <= results.evaluation_points

HasPayoutTable == Truthy(run.bet_multis)

\* C20: with a payout table, the avg_profit of a finished run of either
\* harness is the mean of the profit over all evaluated predictions of the
\* run, every evaluated prediction contributing one profit value.
C20_AsStated ==
    (IsFinished /\ HasPayoutTable) =>
        /\ Len(Realized) = results.total_predictions
        /\ Len(Evaluated) = results.total_predictions
        /\ RatEQ(results.avg_profit, Mean(Realized))

\* C20 for backtest-momentum.py alone
C20_Momentum ==
    (IsFinished /\ HasPayoutTable /\ run.harness = "momentum") =>
        /\ Len(Realized) = results.total_predictions
        /\ Len(Evaluated) = results.total_predictions
        /\ RatEQ(results.avg_profit, Mean(Realized))

\* a finished momentum run with a payout table whose predictions made
\* different profits
C20_MomentumWitness ==
    /\ IsFinished
    /\ HasPayoutTable
    /\ run.harness = "momentum"
    /\ \E j \in 1..Len(Realized) : \E k \in 1..Len(Realized) :
          Realized[j] < Realized[k]

\* what optimize-pattern-params.py returns instead: every evaluated
\* prediction has one profit value, but avg_profit is the mean of the nonzero
\* per-point averages
C20_ParamsMeanOfMeans ==
    (IsFinished /\ HasPayoutTable /\ run.harness = "params") =>
        /\ Len(Realized) = results.total_predictions
        /\ Len(Evaluated) = results.total_predictions
        /\ results.avg_profit = RatMean(tally.total_profit)
        /\ \A k \in 1..Len(tally.total_profit) :
              ~RatEQ(tally.total_profit[k], <<0, 1>>)

\* a finished run of optimize-pattern-params.py whose two evaluation points
\* hold as many predictions each, one of them averaging a profit of 0: it is
\* left out of avg_profit, which differs from the mean over the predictions
C20_ZeroPointDropped ==
    /\ IsFinished
    /\ HasPayoutTable
    /\ run.harness = "params"
    /\ results.evaluation_points = 2
    /\ Len(tally.total_profit) = 1
    /\ Len(Realized) = 2
    /\ ~RatEQ(results.avg_profit, Mean(Realized))

-----------------------------------------------------------------------------
(* The grid search of optimize-pattern-params.py: optimize_parameters,
   print_results and the part of main that saves the results *)

\* the weight of speed in balance_score
BalanceWeight == 50

\* the combinations the loops of optimize_parameters visit for one sample_size
\* and one min_hits: `if min_hits > max_hits: continue`, then every not_hit_in
RECURSIVE CombosOfMaxHits(_, _, _, _)
CombosOfMaxHits(sample_size, min_hits, max_hits_range, not_hit_in_range) ==
    IF max_hits_range = <<>> THEN <<>>
    ELSE (IF min_hits > Head(max_hits_range) THEN <<>>
          ELSE [k \in 1..Len(not_hit_in_range) |->
                   [sample_size |-> sample_size, min_hits |-> min_hits,
                    max_hits |-> Head(max_hits_range),
                    not_hit_in |-> not_hit_in_range[k]]])
         \o CombosOfMaxHits(sample_size, min_hits, Tail(max_hits_range),
                            not_hit_in_range)

RECURSIVE CombosOfMinHits(_, _, _, _)
CombosOfMinHits(sample_size, min_hits_range, max_hits_range, not_hit_in_range) ==
    IF min_hits_range = <<>> THEN <<>>
    ELSE CombosOfMaxHits(sample_size, Head(min_hits_range), max_hits_range,
                         not_hit_in_range)
         \o CombosOfMinHits(sample_size, Tail(min_hits_range), max_hits_range,
                            not_hit_in_range)

\* the params of the run_backtest calls of optimize_parameters, in order
RECURSIVE GridCombos(_, _)
GridCombos(sample_size_range, param_grid) ==
    IF sample_size_range = <<>> THEN <<>>
    ELSE CombosOfMinHits(Head(sample_size_range), param_grid.min_hits,
                         param_grid.max_hits, param_grid.not_hit_in)
         \o GridCombos(Tail(sample_size_range), param_grid)

\* total_tests
total_tests(param_grid) ==
    Len(param_grid.sample_size) * Len(param_grid.min_hits)
      * Len(param_grid.max_hits) * Len(param_grid.not_hit_in)

\* the param_grid of the searches of the model, over the values of ParamsGrid
SearchGrid ==
    [sample_size |-> <<1, 3>>, min_hits |-> <<1>>, max_hits |-> <<1, 2>>,
     not_hit_in |-> <<0, 1>>]

\* items.sort(key=lambda x: x[field], reverse=True), stable
RECURSIVE Keyed(_, _)
Keyed(items, field) ==
    IF items = <<>> THEN <<>>
    ELSE <<[key |-> Head(items)[field], item |-> Head(items)]>>
         \o Keyed(Tail(items), field)

RECURSIVE Unkeyed(_)
Unkeyed(keyed) ==
    IF keyed = <<>> THEN <<>> ELSE <<Head(keyed).item>> \o Unkeyed(Tail(keyed))

SortByFieldDesc(items, field) == Unkeyed(SortByKeyDesc(Keyed(items, field)))

\* r['balance_score'] for every r of results
balance_score(r) ==
    IF RatGT(r.avg_rounds_to_hit, <<0, 1>>)
      THEN <<r.success_rate[1] * BalanceWeight * r.avg_rounds_to_hit[2],
             r.success_rate[2] * r.avg_rounds_to_hit[1]>>
    ELSE <<0, 1>>

RECURSIVE WithBalanceScore(_)
WithBalanceScore(rs) ==
    IF rs = <<>> THEN <<>>
    ELSE <<[balance_score |-> balance_score(Head(rs))] @@ Head(rs)>>
         \o WithBalanceScore(Tail(rs))

\* print_results(results): what it leaves in the list it is given
print_results(rs) == SortByFieldDesc(WithBalanceScore(rs), "balance_score")

\* the first run_backtest of a search
InitSearch ==
    /\ run \in [harness : {"params"}, history : BacktestHistories,
                params : {GridCombos(SearchGrid.sample_size, SearchGrid)[1]},
                pattern_size : {1, 2},
                bet_multis : {NoBetMultis}, difficulty : {"high"},
                use_recency : {FALSE}, decay_factor : {<<1, 2>>}]
    /\ current_index = Max(DiscoveryWindow, run.params.sample_size) + ParamsBuffer
    /\ tally = ParamsTally
    /\ step = Pending
    /\ results = Pending
    /\ call = [fn |-> "optimize_parameters",
               todo |-> Tail(GridCombos(SearchGrid.sample_size, SearchGrid)),
               test_num |-> 1, total_tests |-> total_tests(SearchGrid),
               results |-> <<>>, phase |-> "testing", output_data |-> <<>>]
    /\ config \in {c \in BacktestConfigs :
                     /\ c.pattern_size = 1 /\ c.refresh_frequency = 2
                     /\ c.detection_window = 1 /\ c.baseline_window = 1
                     /\ c.top_n_pool = 1}
    /\ GeneratorFresh
    /\ mom = NoCall
    /\ ev = Pending /\ perf = Pending /\ preds = Pending

\* a run_backtest has returned: its result joins results, and the loops go
\* on to the next combination or end
NextTest ==
    /\ call.phase = "testing"
    /\ results # Pending
    /\ LET collected == Append(call.results,
                               [pattern_size |-> run.pattern_size] @@ results)
       IN  IF call.todo # <<>>
             THEN /\ call' = [call EXCEPT !.results = collected,
                                          !.todo = Tail(call.todo),
                                          !.test_num = call.test_num + 1]
                  /\ run' = [run EXCEPT !.params = Head(call.todo)]
                  /\ current_index' = Max(DiscoveryWindow, Head(call.todo).sample_size)
                                        + ParamsBuffer
                  /\ tally' = ParamsTally
                  /\ step' = Pending
                  /\ results' = Pending
           ELSE /\ call' = [call EXCEPT !.results = collected, !.phase = "tested"]
                /\ UNCHANGED harnessVars
    /\ UNCHANGED <<ev, perf, preds, mom>>
    /\ UNCHANGED generatorVars

\* results.sort(key=lambda x: x['success_rate'], reverse=True); return results
ReturnResults ==
    /\ call.phase = "tested"
    /\ call' = [call EXCEPT !.results = SortByFieldDesc(call.results, "success_rate"),
                            !.phase = "returned"]
    /\ UNCHANGED <<ev, perf, preds, mom>>
    /\ UNCHANGED generatorVars
    /\ UNCHANGED harnessVars

\* main: print_results(results)
PrintResults ==
    /\ call.phase = "returned"
    /\ call' = [call EXCEPT !.results = print_results(call.results),
                            !.phase = "printed"]
    /\ UNCHANGED <<ev, perf, preds, mom>>
    /\ UNCHANGED generatorVars
    /\ UNCHANGED harnessVars

\* main: output_data[f"pattern_size_{pattern_size}"] = results; json.dump
SaveResults ==
    /\ call.phase = "printed"
    /\ call' = [call EXCEPT !.output_data = call.results, !.phase = "saved"]
    /\ UNCHANGED <<ev, perf, preds, mom>>
    /\ UNCHANGED generatorVars
    /\ UNCHANGED harnessVars

NextSearch ==
    \/ BacktestParamsStep
    \/ BacktestParamsFinish
    \/ NextTest
    \/ ReturnResults
    \/ PrintResults
    \/ SaveResults

SpecSearch == InitSearch /\ [][NextSearch]_vars

IsSaved == call # Pending /\ call.fn = "optimize_parameters" /\ call.phase = "saved"

\* analyze-results.py: best = results[0]
best == call.output_data[1]

\* C21: the list saved for a pattern size is in non-increasing success_rate
\* order, so its first element, reported as BEST OVERALL (Highest Success
\* Rate), has the greatest success_rate of the list.
C21_AsStated ==
    IsSaved =>
        /\ \A k \in 1..(Len(call.output_data) - 1) :
              RatGE(call.output_data[k].success_rate,
                    call.output_data[k + 1].success_rate)
        /\ \A k \in 1..Len(call.output_data) :
              RatGE(best.success_rate, call.output_data[k].success_rate)

\* what holds instead: optimize_parameters returns the list in non-increasing
\* success_rate order, and the list saved is in non-increasing balance_score
\* order
C21_RankedByBalance ==
    /\ (call # Pending /\ call.fn = "optimize_parameters" /\ call.phase = "returned") =>
          \A k \in 1..(Len(call.results) - 1) :
              RatGE(call.results[k].success_rate, call.results[k + 1].success_rate)
    /\ IsSaved =>
          \A k \in 1..(Len(call.output_data) - 1) :
              RatGE(call.output_data[k].balance_score,
                    call.output_data[k + 1].balance_score)

-----------------------------------------------------------------------------
(* Runs of a harness one after another on the same history and payout
   table, as the loops of the two optimize_parameters make them *)

\* MomentumPatternGenerator(config) with the state of the generator before it
NewGenerator_kept(cfg) ==
    [config |-> cfg, current_pattern |-> current_pattern,
     last_refresh_round |-> last_refresh_round]

\* MomentumPatternGenerator(config): __init__
NewGenerator(cfg) ==
    [config |-> cfg, current_pattern |-> <<>>, last_refresh_round |-> 0]

\* the configurations and the parameters the runs are made with
RunConfigs == {c \in BacktestConfigs : c.pattern_size = 2}
RunParams == ParamsGrid

\* the configuration of the run in progress
RunKey == IF run.harness = "momentum" THEN config ELSE run.params

InitRuns ==
    /\ \/ /\ config \in RunConfigs
          /\ run \in [harness : {"momentum"}, history : BacktestHistories,
                      bet_multis : {[high |-> Payouts(1, 4, 1)]},
                      difficulty : {"high"}]
          /\ current_index = config.baseline_window + MomentumBuffer
          /\ tally = MomentumTally
       \/ /\ config \in {c \in RunConfigs :
                           /\ c.refresh_frequency = 2
                           /\ c.detection_window = 1 /\ c.baseline_window = 1}
          /\ run \in [harness : {"params"}, history : BacktestHistories,
                      params : RunParams, pattern_size : {2},
                      bet_multis : {[high |-> Payouts(1, 4, 1)]},
                      difficulty : {"high"},
                      use_recency : {FALSE}, decay_factor : {<<1, 2>>}]
          /\ current_index = Max(DiscoveryWindow, run.params.sample_size) + ParamsBuffer
          /\ tally = ParamsTally
    /\ step = Pending
    /\ results = Pending
    /\ call = [fn |-> "runs", history |-> run.history, bet_multis |-> run.bet_multis,
               first |-> <<>>, before |-> 0]
    /\ GeneratorFresh
    /\ mom = NoCall
    /\ ev = Pending /\ perf = Pending /\ preds = Pending

\* the result of the first run of the sequence is kept for comparison
Remembered ==
    IF call.first = <<>> THEN <<[key |-> RunKey, result |-> results]>>
    ELSE call.first

\* the next pass of `for i, config in enumerate(configs, 1)` of
\* backtest-momentum.py: run_backtest builds its generator and its counters
NextMomentumRun ==
    /\ run.harness = "momentum"
    /\ results # Pending
    /\ \E cfg \in RunConfigs :
       \E generator \in {NewGenerator(cfg)} :
         /\ config' = generator.config
         /\ current_pattern' = generator.current_pattern
         /\ last_refresh_round' = generator.last_refresh_round
         /\ current_index' = cfg.baseline_window + MomentumBuffer
    /\ tally' = MomentumTally
    /\ step' = Pending
    /\ results' = Pending
    /\ call' = [call EXCEPT !.first = Remembered,
                            !.before = IF call.before < 2 THEN call.before + 1 ELSE 2]
    /\ UNCHANGED <<run, mom>>
    /\ UNCHANGED <<arg_history, arg_round, ret_pattern, path, pc>>
    /\ UNCHANGED <<ev, perf, preds>>

\* the next run_backtest of the loops of optimize-pattern-params.py
NextParamsRun ==
    /\ run.harness = "params"
    /\ results # Pending
    /\ \E params \in RunParams :
         /\ run' = [run EXCEPT !.params = params]
         /\ current_index' = Max(DiscoveryWindow, params.sample_size) + ParamsBuffer
    /\ tally' = ParamsTally
    /\ step' = Pending
    /\ results' = Pending
    /\ call' = [call EXCEPT !.first = Remembered,
                            !.before = IF call.before < 2 THEN call.before + 1 ELSE 2]
    /\ UNCHANGED mom
    /\ UNCHANGED generatorVars
    /\ UNCHANGED <<ev, perf, preds>>

NextRuns ==
    \/ BacktestMomentumStep
    \/ BacktestMomentumFinish
    \/ BacktestParamsStep
    \/ BacktestParamsFinish
    \/ NextMomentumRun
    \/ NextParamsRun

SpecRuns == InitRuns /\ [][NextRuns]_vars

IsRuns == call # Pending /\ call.fn = "runs"

\* C22: a run is a function of (history, configuration, payout table): a run
\* made after any other runs returns what the first run of the sequence
\* returned for the same configuration; every run starts at its first
\* evaluation point from empty counters; and no run changes the history or
\* the payout table.
C22_PureRuns ==
    IsRuns =>
        /\ run.history = call.history
        /\ run.bet_multis = call.bet_multis
        /\ (results # Pending /\ call.first # <<>> /\ call.first[1].key = RunKey)
              => results = call.first[1].result
        /\ step = Pending =>
              /\ tally = (IF run.harness = "momentum" THEN MomentumTally
                          ELSE ParamsTally)
              /\ run.harness = "momentum" =>
                    current_pattern = <<>> /\ last_refresh_round = 0

\* The configuration of the first run is run again after two or more runs
\* have been made, refreshes its generator, completes a prediction, and
\* returns the first result.
C22_Witness ==
    /\ IsRuns
    /\ run.harness = "momentum"
    /\ results # Pending
    /\ call.before = 2
    /\ call.first[1].key = RunKey
    /\ results = call.first[1].result
    /\ results.total_completions > 0
    /\ last_refresh_round > 0

\* the same for optimize-pattern-params.py
C22_WitnessParams ==
    /\ IsRuns
    /\ run.harness = "params"
    /\ results # Pending
    /\ call.before = 2
    /\ call.first[1].key = RunKey
    /\ results = call.first[1].result
    /\ results.total_successes > 0

-----------------------------------------------------------------------------
(* More claims about the generator *)

\* the call that has just returned was due to refresh; on a prefix shorter
\* than baseline_window no call changes current_pattern, so the field still
\* holds what the call found
WasDue == current_pattern = <<>> \/ arg_round % config.refresh_frequency = 0

ShortPrefix == arg_history # <<>> /\ Len(arg_history) < config.baseline_window

\* the rounds of the prefix that draw n
DrawFrequency(n) ==
    Cardinality({i \in 1..Len(arg_history) : n \in arg_history[i].drawn})

\* m comes ahead of n: drawn more often, or as often and the lower number
Ahead(m, n) ==
    \/ DrawFrequency(m) > DrawFrequency(n)
    \/ DrawFrequency(m) = DrawFrequency(n) /\ m < n

\* C23: a get_pattern call that is due to refresh on a non-empty prefix
\* shorter than baseline_window returns the pattern_size numbers drawn most
\* often in the whole prefix, most frequent first and equally frequent
\* numbers in ascending order; momentum plays no part.
C23_ShortHistoryFallback ==
    (pc = "called" /\ ShortPrefix /\ WasDue) =>
        /\ path = "fallback"
        /\ Len(ret_pattern) = config.pattern_size
        /\ SeqRange(ret_pattern) \subseteq Numbers
        /\ \A i \in 1..Len(ret_pattern) : \A j \in 1..Len(ret_pattern) :
              i < j => Ahead(ret_pattern[i], ret_pattern[j])
        /\ \A m \in SeqRange(ret_pattern) : \A n \in Numbers \ SeqRange(ret_pattern) :
              Ahead(m, n)

\* A call due to refresh on two rounds, fewer than baseline_window, returns
\* the number drawn in both ahead of one drawn once, and leaves out another
\* number drawn once.
C23_Witness ==
    /\ pc = "called"
    /\ ShortPrefix
    /\ WasDue
    /\ Len(arg_history) = 2
    /\ Len(ret_pattern) = 2
    /\ DrawFrequency(ret_pattern[1]) = 2
    /\ DrawFrequency(ret_pattern[2]) = 1
    /\ \E n \in Numbers \ SeqRange(ret_pattern) : DrawFrequency(n) = 1

-----------------------------------------------------------------------------
(* More claims about the momentum backtest *)

IsMomentumPass == run.harness = "momentum" /\ step # Pending

\* C24: every evaluation point the momentum backtest visits is a refresh
\* point of the generator: the pattern evaluated there is the one generated
\* from the rounds before it, and last_refresh_round is that point.
C24_AsStated ==
    IsMomentumPass =>
        /\ step.path = "generated"
        /\ last_refresh_round = step.at
        /\ step.patterns[1] = Generated(config, SliceOf(run.history, history_slice(step.at)))

\* What the loop does: its first point always refreshes (nothing is cached);
\* a later point refreshes exactly when it is a multiple of refresh_frequency,
\* and otherwise the pattern cached at an earlier point is evaluated again.
C24_RefreshPoints ==
    IsMomentumPass =>
        \A first \in {Len(step.predicted) = 1} :
        \A due \in {step.at % config.refresh_frequency = 0} :
            /\ (first \/ due) =>
                  step.path = "generated" /\ last_refresh_round = step.at
            /\ ~(first \/ due) =>
                  /\ step.path = "cached"
                  /\ last_refresh_round < step.at
                  /\ step.patterns[1] = step.predicted[Len(step.predicted) - 1].numbers

\* A later point of the loop evaluates a cached pattern that differs from the
\* one the rounds before the point would generate.
C24_StalePattern ==
    /\ IsMomentumPass
    /\ step.path = "cached"
    /\ step.patterns[1] # Generated(config, SliceOf(run.history, history_slice(step.at)))

-----------------------------------------------------------------------------
(* The parameter grid of optimize_parameters, as written in the script *)

\* min_hits_range and max_hits_range for a pattern size
min_hits_range(pattern_size) ==
    CASE pattern_size = 3 -> <<1, 2>>
      [] pattern_size = 4 -> <<1, 3>>
      [] pattern_size = 5 -> <<1, 4>>
      [] pattern_size = 6 -> <<3, 4, 5>>
      [] pattern_size = 7 -> <<4, 5, 6>>
      [] pattern_size = 8 -> <<5, 6, 7>>
      [] pattern_size = 9 -> <<6, 7, 8>>
      [] pattern_size = 10 -> <<7, 8, 9>>
      [] OTHER -> <<Max(1, pattern_size - 2), pattern_size - 1>>

max_hits_range(pattern_size) ==
    CASE pattern_size = 3 -> <<2, 3>>
      [] pattern_size = 4 -> <<3, 5>>
      [] pattern_size = 5 -> <<3, 4>>
      [] pattern_size = 6 -> <<4, 5>>
      [] pattern_size = 7 -> <<5, 6>>
      [] pattern_size = 8 -> <<6, 7>>
      [] pattern_size = 9 -> <<7, 8>>
      [] pattern_size = 10 -> <<8, 9>>
      [] OTHER -> <<pattern_size - 1>>

\* param_grid
ParamGrid(pattern_size) ==
    [sample_size |-> <<5, 10, 25, 50, 75, 100, 150, 200>>,
     min_hits |-> min_hits_range(pattern_size),
     max_hits |-> max_hits_range(pattern_size),
     not_hit_in |-> <<0, 50, 100, 1000>>]

\* the pattern sizes main hands to optimize_parameters
PatternSizes == 3..10

\* optimize_parameters(history, pattern_size, ...) up to its loops. Of each
\* run_backtest only the call is kept: passed holds the params of the calls
\* made so far, one result is appended to results per call.
InitGrid ==
    /\ \E pattern_size \in PatternSizes :
         \E grid \in {ParamGrid(pattern_size)} :
           call = [fn |-> "grid", pattern_size |-> pattern_size,
                   param_grid |-> grid,
                   todo |-> GridCombos(grid.sample_size, grid),
                   total_tests |-> total_tests(grid),
                   test_num |-> 0, passed |-> <<>>,
                   phase |-> "testing", completed |-> 0, returned |-> 0]
    /\ config \in {c \in BacktestConfigs :
                     /\ c.pattern_size = 1 /\ c.refresh_frequency = 2
                     /\ c.detection_window = 1 /\ c.baseline_window = 1
                     /\ c.top_n_pool = 1}
    /\ run = Pending /\ current_index = 0 /\ tally = Pending
    /\ step = Pending /\ results = Pending
    /\ GeneratorFresh
    /\ mom = NoCall
    /\ ev = Pending /\ perf = Pending /\ preds = Pending

\* one pass of the innermost loop: test_num += 1, run_backtest(history, params, ...)
GridTest ==
    /\ call.fn = "grid"
    /\ call.phase = "testing"
    /\ call.todo # <<>>
    /\ call' = [call EXCEPT !.test_num = call.test_num + 1,
                            !.passed = Append(call.passed, Head(call.todo)),
                            !.todo = Tail(call.todo)]
    /\ UNCHANGED <<ev, perf, preds, mom>>
    /\ UNCHANGED generatorVars
    /\ UNCHANGED harnessVars

\* after the loops: "Completed {total_tests} tests", sort, return results
GridReturn ==
    /\ call.fn = "grid"
    /\ call.phase = "testing"
    /\ call.todo = <<>>
    /\ call' = [call EXCEPT !.phase = "returned",
                            !.completed = call.total_tests,
                            !.returned = Len(call.passed)]
    /\ UNCHANGED <<ev, perf, preds, mom>>
    /\ UNCHANGED generatorVars
    /\ UNCHANGED harnessVars

NextGrid == GridTest \/ GridReturn

SpecGrid == InitGrid /\ [][NextGrid]_vars

\* C25: every combination passed to run_backtest has min_hits <= max_hits and
\* both below the pattern size.
C25_AsStated ==
    \A i \in 1..Len(call.passed) :
        /\ call.passed[i].min_hits <= call.passed[i].max_hits
        /\ call.passed[i].min_hits < call.pattern_size
        /\ call.passed[i].max_hits < call.pattern_size

\* What the grid guarantees: min_hits <= max_hits and min_hits below the
\* pattern size in every call; max_hits is below the pattern size except for
\* the pattern sizes 3 (max_hits 3) and 4 (max_hits 5).
C25_HitRanges ==
    \A i \in 1..Len(call.passed) :
        /\ call.passed[i].min_hits <= call.passed[i].max_hits
        /\ call.passed[i].min_hits < call.pattern_size
        /\ call.pattern_size \notin {3, 4} =>
              call.passed[i].max_hits < call.pattern_size

\* A search for pattern size 4 has passed max_hits = 5 to run_backtest.
C25_MaxHitsAbove ==
    /\ call.pattern_size = 4
    /\ \E i \in 1..Len(call.passed) : call.passed[i].max_hits > call.pattern_size

\* C26: when optimize_parameters returns, the number of backtests run, the
\* final test_num and the length of the returned list, is total_tests.
C26_AsStated ==
    call.phase = "returned" =>
        /\ call.test_num = call.total_tests
        /\ call.returned = call.total_tests

\* What holds: test_num and the length of the list agree with each other and
\* never exceed total_tests; they reach it for the pattern sizes 3 and 4,
\* whose grid has no pair with min_hits > max_hits.
C26_TestsRun ==
    /\ call.test_num = Len(call.passed)
    /\ call.test_num <= call.total_tests
    /\ call.phase = "returned" =>
          /\ call.returned = call.test_num
          /\ call.completed = call.total_tests
          /\ call.pattern_size \in {3, 4} <=> call.test_num = call.total_tests

\* A search for pattern size 5 returns 96 results and reports 128 tests.
C26_FewerThanReported ==
    /\ call.phase = "returned"
    /\ call.pattern_size = 5
    /\ call.returned = 96
    /\ call.completed = 128

-----------------------------------------------------------------------------
(* The two evaluators on the same pattern and window *)

\* both evaluators have been given ev, with a full window and a payout table
BothEvaluated ==
    perf # Pending /\ preds # Pending /\ HasWindow /\ Truthy(ev.bet_multis)

\* C27: on the same pattern, window of lookahead rounds, payout table and
\* difficulty, evaluate_predictions and evaluate_pattern_performance report
\* the same completion and the same rounds_to_hit, and a profit >= 0 in the
\* same cases; the profit of the first pattern of a longer list has the same
\* sign as well.
C27_EvaluatorsAgree ==
    BothEvaluated =>
        /\ perf.profit >= 0 <=> preds.profits[1] >= 0
        /\ Len(ev.patterns) = 1 =>
              /\ perf.completed <=> preds.successes = 1
              /\ preds.successes \in {0, 1}
              /\ perf.completed => preds.rounds_to_hit = <<perf.rounds_to_hit>>
              /\ ~perf.completed =>
                    preds.rounds_to_hit = <<>> /\ perf.rounds_to_hit = 0
              /\ perf.profit >= 0 <=> preds.maintaining = 1
              /\ preds.maintaining \in {0, 1}

\* No completion: evaluate_predictions stops at a break-even partial hit,
\* evaluate_pattern_performance finds a better one later; the profits differ
\* and both count as maintaining.
C27_Witness ==
    /\ BothEvaluated
    /\ Len(ev.patterns) = 1
    /\ ~perf.completed
    /\ preds.profits[1] >= 0
    /\ perf.profit > preds.profits[1]
    /\ preds.maintaining = 1

\* A completion in the second round of the window, reported by both with a
\* negative profit.
C27_WitnessCompleted ==
    /\ BothEvaluated
    /\ Len(ev.patterns) = 1
    /\ perf.completed /\ perf.rounds_to_hit = 2
    /\ preds.rounds_to_hit = <<2>>
    /\ perf.profit < 0 /\ preds.maintaining = 0

-----------------------------------------------------------------------------
(* The generator inside the momentum backtest *)

\* the get_pattern call of the next pass of the momentum loop
NextGetPattern ==
    get_pattern(config, current_pattern, last_refresh_round,
                SliceOf(run.history, history_slice(current_index)),
                current_index)

\* C28: in the momentum backtest the prefix handed to the generator at every
\* evaluation point is non-empty and at least baseline_window long, the
\* generator returns a generated or a cached pattern, never the most-frequent
\* fallback or a random pattern, and each get_pattern call has one outcome.
C28_NoFallback ==
    /\ IsMomentumPass =>
          /\ step.path \in {"generated", "cached"}
          /\ Cardinality(step.past) = step.at
          /\ step.at >= config.baseline_window
          /\ step.at > 0
    /\ (run.harness = "momentum" /\ results = Pending
          /\ current_index < Len(run.history) - Lookahead) =>
          Cardinality(NextGetPattern) = 1

\* A run with baseline_window 2 has passed two evaluation points, the second
\* on the pattern generated at the first.
C28_Witness ==
    /\ IsMomentumPass
    /\ config.baseline_window = 2
    /\ Len(step.predicted) = 2
    /\ step.path = "cached"
    /\ Cardinality(step.past) = step.at

-----------------------------------------------------------------------------
(* The range of the momentum *)

WindowsNested == config.detection_window <= config.baseline_window

C29_WitnessSentinel ==
    /\ MomCalled /\ MomEnough
    /\ config.detection_window > config.baseline_window
    /\ mom.result = <<MomentumSentinel, 1>>
    /\ MomBaseline = 0 /\ MomRecent = 1

-----------------------------------------------------------------------------
(* The cached state of the generator *)

\* the call of this step is a real refresh: it is due, on a history prefix of
\* at least baseline_window rounds
IsRealRefresh ==
    /\ IsCall
    /\ current_pattern = <<>> \/ arg_round' % config.refresh_frequency = 0
    /\ Len(arg_history') >= config.baseline_window

\* C30: current_pattern and last_refresh_round change only in a get_pattern
\* call that is a real refresh, which records its round number; every other
\* call, a fallback or random return included, and every other step leaves
\* both as they are. last_refresh_round is hence 0 or the round of the most
\* recent real refresh.
C30_CachedStateFrame ==
    [][/\ IsRealRefresh =>
             /\ last_refresh_round' = arg_round'
             /\ current_pattern' = ret_pattern'
             /\ current_pattern' = Generated(config, arg_history')
       /\ ~IsRealRefresh => UNCHANGED <<current_pattern, last_refresh_round>>
       /\ (IsCall /\ path' \in {"fallback", "random"}) =>
             UNCHANGED <<current_pattern, last_refresh_round>>]_vars

\* A fallback call made after a real refresh, at a later round: it returned
\* another pattern than the cached one and left the cached state alone.
C30_Witness ==
    /\ pc = "called" /\ path = "fallback"
    /\ current_pattern # <<>>
    /\ last_refresh_round > 0
    /\ arg_round > last_refresh_round
    /\ ret_pattern # current_pattern

====
